---- MODULE Spec2Model ----
(***************************************************************************)
(* The MOTIF language front end and evaluator (src/motif/parser.py):       *)
(* MOTIFLexer, MOTIFParser and MOTIFInterpreter.                           *)
(*                                                                         *)
(* Python values are tagged records [t |-> tag, v |-> payload].  A Python  *)
(* str is a TLA+ string (a character is a string of length 1), so the      *)
(* symbol night and the string literal "night" are the same value, as in   *)
(* the parsed tree of the program.                                         *)
(***************************************************************************)
EXTENDS Integers, Sequences, FiniteSets, TLC

\* ------------------------------------------------------------------ bounds
\* Top-level expressions one interpreter evaluates.
MaxProg == 3
\* Iterations of a while-emotional-state loop that are followed.
MaxIter == 2

\* ----------------------------------------------------------- Python values
None == [t |-> "none", v |-> 0]
StrV(s) == [t |-> "str", v |-> s]
IntV(n) == [t |-> "int", v |-> n]
\* A float is kept as sign, whole part and the digits after the point.
FloatV(neg, whole, frac) == [t |-> "float", v |-> <<neg, whole, frac>>]
BoolV(b) == [t |-> "bool", v |-> b]
ListV(xs) == [t |-> "list", v |-> xs]
DictV(pairs) == [t |-> "dict", v |-> pairs]

IsStr(x) == x.t = "str"
IsList(x) == x.t = "list"

\* ------------------------------------------------------------- characters
Char(s, i) == SubSeq(s, i, i)
Digits == {"0", "1", "2", "3", "4", "5", "6", "7", "8", "9"}
UpperLetters == "ABCDEFGHIJKLMNOPQRSTUVWXYZ"
LowerLetters == "abcdefghijklmnopqrstuvwxyz"
IsDigit(c) == c \in Digits
IsUpper(c) == \E i \in 1..26 : Char(UpperLetters, i) = c
IsLower(c) == \E i \in 1..26 : Char(LowerLetters, i) = c
IsAlpha(c) == IsUpper(c) \/ IsLower(c)
IsAlnum(c) == IsAlpha(c) \/ IsDigit(c)
IsSpace(c) == c \in {" ", "\n", "\t", "\r"}

LowerChar(c) ==
  IF IsUpper(c)
  THEN Char(LowerLetters, CHOOSE i \in 1..26 : Char(UpperLetters, i) = c)
  ELSE c

RECURSIVE PyLower(_)
PyLower(s) == IF s = "" THEN "" ELSE LowerChar(Head(s)) \o PyLower(Tail(s))

\* sub in s
PyContains(s, sub) ==
  \E i \in 1..(Len(s) - Len(sub) + 1) : SubSeq(s, i, i + Len(sub) - 1) = sub

\* s.replace(old, new) for a one-character old
RECURSIVE PyReplace(_, _, _)
PyReplace(s, old, new) ==
  IF s = "" THEN ""
  ELSE (IF Head(s) = old THEN new ELSE Head(s)) \o PyReplace(Tail(s), old, new)

\* s.split(): the maximal runs of non-whitespace characters
RECURSIVE SplitFrom(_, _)
SplitFrom(s, word) ==
  IF s = "" THEN (IF word = "" THEN <<>> ELSE <<word>>)
  ELSE IF IsSpace(Head(s))
       THEN (IF word = "" THEN <<>> ELSE <<word>>) \o SplitFrom(Tail(s), "")
       ELSE SplitFrom(Tail(s), word \o Head(s))
PySplit(s) == SplitFrom(s, "")

\* s.strip()
RECURSIVE LStrip(_)
LStrip(s) == IF s # "" /\ IsSpace(Head(s)) THEN LStrip(Tail(s)) ELSE s
RECURSIVE RStrip(_)
RStrip(s) ==
  IF s # "" /\ IsSpace(Char(s, Len(s))) THEN RStrip(SubSeq(s, 1, Len(s) - 1)) ELSE s
PyStrip(s) == RStrip(LStrip(s))

\* repr of a str: single quotes unless the text has a ' and no "
ReprQuote(s) == IF PyContains(s, "'") /\ ~PyContains(s, "\"") THEN "\"" ELSE "'"
RECURSIVE ReprBody(_, _)
ReprBody(s, q) ==
  IF s = "" THEN ""
  ELSE LET c == Head(s)
           e == CASE c = "\\" -> "\\\\"
                  [] c = q -> "\\" \o q
                  [] c = "\n" -> "\\n"
                  [] c = "\t" -> "\\t"
                  [] c = "\r" -> "\\r"
                  [] OTHER -> c
       IN e \o ReprBody(Tail(s), q)
StrRepr(s) == ReprQuote(s) \o ReprBody(s, ReprQuote(s)) \o ReprQuote(s)

FloatRepr(f) ==
  (IF f[1] THEN "-" ELSE "") \o ToString(f[2]) \o "." \o (IF f[3] = "" THEN "0" ELSE f[3])

\* repr(x) and str(x) of the values a parsed tree holds
RECURSIVE PyRepr(_)
RECURSIVE ReprItems(_)
ReprItems(xs) ==
  IF xs = <<>> THEN ""
  ELSE PyRepr(Head(xs)) \o (IF Tail(xs) = <<>> THEN "" ELSE ", " \o ReprItems(Tail(xs)))
PyRepr(x) ==
  CASE x.t = "str" -> StrRepr(x.v)
    [] x.t = "int" -> ToString(x.v)
    [] x.t = "float" -> FloatRepr(x.v)
    [] x.t = "list" -> "[" \o ReprItems(x.v) \o "]"
    [] x.t = "bool" -> (IF x.v THEN "True" ELSE "False")
    [] OTHER -> "None"
PyStr(x) == IF x.t = "str" THEN x.v ELSE PyRepr(x)

\* bool(x)
Truthy(x) ==
  CASE x.t = "none" -> FALSE
    [] x.t = "bool" -> x.v
    [] x.t = "int" -> x.v # 0
    [] x.t = "float" -> ~(x.v[2] = 0 /\ x.v[3] = "")
    [] x.t = "str" -> x.v # ""
    [] x.t = "list" -> x.v # <<>>
    [] x.t = "dict" -> x.v # <<>>
    [] OTHER -> TRUE

\* A list cannot be a dict key: hashing it raises TypeError.
Hashable(x) == x.t # "list"

\* ---------------------------------------------------------- ordered dicts
\* A dict built by a handler is the sequence of its <<key, value>> items in
\* insertion order.
DictHas(d, k) == \E i \in 1..Len(d) : d[i][1] = k
DictGet(d, k) == d[CHOOSE i \in 1..Len(d) : d[i][1] = k][2]
DictSet(d, k, val) ==
  IF DictHas(d, k)
  THEN [i \in 1..Len(d) |-> IF d[i][1] = k THEN <<k, val>> ELSE d[i]]
  ELSE Append(d, <<k, val>>)

\* An instance mapping of the interpreter (name -> entity) is a function.
MapSet(m, k, val) == [x \in DOMAIN m \cup {k} |-> IF x = k THEN val ELSE m[x]]
EmptyMap == [x \in {} |-> None]

\* ------------------------------------------------- interpreter: the basics
\* The interpreter's fields, what it has printed (one event per print call,
\* with the values the line is formatted from) and the expressions handed to
\* _evaluate, in call order.
NewInterpreter ==
  [symbols |-> EmptyMap, archetypes |-> EmptyMap, emotions |-> EmptyMap,
   metaphors |-> EmptyMap, motifs |-> EmptyMap, leitmotifs |-> EmptyMap,
   compositions |-> EmptyMap, context |-> EmptyMap,
   out |-> <<>>, trace |-> <<>>]

NoError == [kind |-> "none", msg |-> ""]
\* A handler's outcome: the interpreter after it, and the value it returns or
\* the exception it raises.
Return(st, val) == [st |-> st, val |-> val, err |-> NoError]
Raise(st, kind, msg) == [st |-> st, val |-> None, err |-> [kind |-> kind, msg |-> msg]]
Failed(r) == r.err.kind # "none"
UnhashableList(st) == Raise(st, "TypeError", "unhashable type: 'list'")
Printed(st, ev, vals) == [st EXCEPT !.out = Append(@, [ev |-> ev, vals |-> vals])]

Entity(cls, fields) == [t |-> cls, v |-> fields]

\* ------------------------------------------------------ define-* handlers
RECURSIVE ArchetypeProperties(_, _, _)
ArchetypeProperties(args, j, properties) ==
  IF j > Len(args) THEN properties
  ELSE IF j + 1 <= Len(args)
       THEN LET prop_name == IF IsList(args[j]) THEN StrV(PyStr(args[j])) ELSE args[j]
            IN ArchetypeProperties(args, j + 2, DictSet(properties, prop_name, args[j + 1]))
       ELSE ArchetypeProperties(args, j + 2, properties)

\* define-archetype adding to the properties the name already has.
define_archetype_merging(args, st) ==
  IF Len(args) < 1
  THEN Raise(st, "RuntimeError", "define-archetype requires at least a name")
  ELSE LET name == args[1]
           old == IF Hashable(name) /\ name \in DOMAIN st.archetypes
                  THEN st.archetypes[name].v.properties ELSE <<>>
           archetype == Entity("DefineArchetype",
                               [name |-> name,
                                properties |-> ArchetypeProperties(args, 2, old)])
       IN IF ~Hashable(name) THEN UnhashableList(st)
          ELSE Return([st EXCEPT !.archetypes = MapSet(@, name, archetype)], archetype)

define_archetype(args, st) ==
  IF Len(args) < 1
  THEN Raise(st, "RuntimeError", "define-archetype requires at least a name")
  ELSE LET name == args[1]
           archetype == Entity("DefineArchetype",
                               [name |-> name,
                                properties |-> ArchetypeProperties(args, 2, <<>>)])
       IN IF ~Hashable(name) THEN UnhashableList(st)
          ELSE Return([st EXCEPT !.archetypes = MapSet(@, name, archetype)], archetype)

\* The loops below return [bad |-> a key could not be hashed, d |-> the dict].
RECURSIVE ImageSensoryData(_, _, _)
ImageSensoryData(args, j, sensory_data) ==
  IF j > Len(args) THEN [bad |-> FALSE, d |-> sensory_data]
  ELSE IF j + 1 <= Len(args)
       THEN IF ~Hashable(args[j]) THEN [bad |-> TRUE, d |-> sensory_data]
            ELSE ImageSensoryData(args, j + 2, DictSet(sensory_data, args[j], args[j + 1]))
       ELSE ImageSensoryData(args, j + 2, sensory_data)

\* A define-image that registers the image in context, not in symbols.
define_image_context(args, st) ==
  IF Len(args) < 1
  THEN Raise(st, "RuntimeError", "define-image requires at least a name")
  ELSE LET name == args[1]
           data == ImageSensoryData(args, 2, <<>>)
           image == Entity("DefineImage", [name |-> name, sensory_data |-> data.d])
       IN IF data.bad \/ ~Hashable(name) THEN UnhashableList(st)
          ELSE Return([st EXCEPT !.context = MapSet(@, name, image)], image)

define_image(args, st) ==
  IF Len(args) < 1
  THEN Raise(st, "RuntimeError", "define-image requires at least a name")
  ELSE LET name == args[1]
           data == ImageSensoryData(args, 2, <<>>)
           image == Entity("DefineImage", [name |-> name, sensory_data |-> data.d])
       IN IF data.bad \/ ~Hashable(name) THEN UnhashableList(st)
          ELSE Return([st EXCEPT !.symbols = MapSet(@, name, image)], image)

RECURSIVE EmotionProperties(_, _, _)
EmotionProperties(args, j, properties) ==
  IF j > Len(args) THEN [bad |-> FALSE, d |-> properties]
  ELSE IF j + 1 <= Len(args)
       THEN LET prop_name == args[j]
                prop_value == args[j + 1]
            IN IF IsList(prop_name) /\ Len(prop_name.v) > 0
               THEN IF ~Hashable(prop_name.v[1]) THEN [bad |-> TRUE, d |-> properties]
                    ELSE EmotionProperties(args, j + 2,
                                           DictSet(properties, prop_name.v[1], prop_value))
               ELSE IF IsStr(prop_name)
                    THEN EmotionProperties(args, j + 2,
                                           DictSet(properties, prop_name, prop_value))
                    ELSE EmotionProperties(args, j + 2, properties)
       ELSE EmotionProperties(args, j + 2, properties)

define_emotion(args, st) ==
  IF Len(args) < 1
  THEN Raise(st, "RuntimeError", "define-emotion requires at least a name")
  ELSE LET name == args[1]
           props == EmotionProperties(args, 2, <<>>)
           emotion == Entity("DefineEmotion", [name |-> name, properties |-> props.d])
       IN IF props.bad \/ ~Hashable(name) THEN UnhashableList(st)
          ELSE Return([st EXCEPT !.emotions = MapSet(@, name, emotion)], emotion)

RECURSIVE MetaphorProperties(_, _, _)
MetaphorProperties(args, j, properties) ==
  IF j > Len(args) THEN [bad |-> FALSE, d |-> properties]
  ELSE IF j + 1 <= Len(args)
       THEN LET prop_name == args[j]
                prop_value == args[j + 1]
            IN IF IsList(prop_name) /\ Len(prop_name.v) > 0
               THEN IF ~Hashable(prop_name.v[1]) THEN [bad |-> TRUE, d |-> properties]
                    ELSE MetaphorProperties(args, j + 2,
                                            DictSet(properties, prop_name.v[1], prop_value))
               ELSE IF IsStr(prop_name)
                    THEN MetaphorProperties(args, j + 2,
                                            DictSet(properties, prop_name, prop_value))
                    ELSE MetaphorProperties(args, j + 2, properties)
       ELSE MetaphorProperties(args, j + 2, properties)

\* define-metaphor asking for a name and a source only: the target is then
\* read past the end of args.
define_metaphor_two(args, st) ==
  IF Len(args) < 2
  THEN Raise(st, "RuntimeError", "define-metaphor requires name, source, and target")
  ELSE IF Len(args) < 3 THEN Raise(st, "IndexError", "list index out of range")
  ELSE LET name == args[1]
           props == MetaphorProperties(args, 4, <<>>)
           metaphor == Entity("DefineMetaphor",
                              [name |-> name, source |-> args[2], target |-> args[3],
                               properties |-> props.d])
       IN IF props.bad \/ ~Hashable(name) THEN UnhashableList(st)
          ELSE Return([st EXCEPT !.metaphors = MapSet(@, name, metaphor)], metaphor)

\* A define-metaphor that registers the name before it checks the arity.
define_metaphor_early(args, st) ==
  IF Len(args) < 3
  THEN Raise(IF Len(args) >= 1 /\ Hashable(args[1])
             THEN [st EXCEPT !.metaphors =
                     MapSet(@, args[1],
                            Entity("DefineMetaphor",
                                   [name |-> args[1], source |-> None, target |-> None,
                                    properties |-> <<>>]))]
             ELSE st,
             "RuntimeError", "define-metaphor requires name, source, and target")
  ELSE LET name == args[1]
           props == MetaphorProperties(args, 4, <<>>)
           metaphor == Entity("DefineMetaphor",
                              [name |-> name, source |-> args[2], target |-> args[3],
                               properties |-> props.d])
       IN IF props.bad \/ ~Hashable(name) THEN UnhashableList(st)
          ELSE Return([st EXCEPT !.metaphors = MapSet(@, name, metaphor)], metaphor)

define_metaphor(args, st) ==
  IF Len(args) < 3
  THEN Raise(st, "RuntimeError", "define-metaphor requires name, source, and target")
  ELSE LET name == args[1]
           props == MetaphorProperties(args, 4, <<>>)
           metaphor == Entity("DefineMetaphor",
                              [name |-> name, source |-> args[2], target |-> args[3],
                               properties |-> props.d])
       IN IF props.bad \/ ~Hashable(name) THEN UnhashableList(st)
          ELSE Return([st EXCEPT !.metaphors = MapSet(@, name, metaphor)], metaphor)

RECURSIVE MotifComponents(_, _, _)
MotifComponents(args, j, components) ==
  IF j > Len(args) THEN components
  ELSE IF j + 1 <= Len(args)
       THEN LET comp_name == IF IsList(args[j]) THEN StrV(PyStr(args[j])) ELSE args[j]
            IN MotifComponents(args, j + 2, DictSet(components, comp_name, args[j + 1]))
       ELSE MotifComponents(args, j + 2, components)

define_motif(args, st) ==
  IF Len(args) < 1
  THEN Raise(st, "RuntimeError", "define-motif requires at least a name")
  ELSE LET name == args[1]
           motif == Entity("DefineMotif",
                           [name |-> name, components |-> MotifComponents(args, 2, <<>>)])
       IN IF ~Hashable(name) THEN UnhashableList(st)
          ELSE Return([st EXCEPT !.motifs = MapSet(@, name, motif)], motif)

\* acc = [bad, motifs, d]
RECURSIVE LeitmotifParts(_, _, _)
LeitmotifParts(args, j, acc) ==
  IF j > Len(args) THEN acc
  ELSE IF j + 1 <= Len(args)
       THEN LET key == args[j]
                value == args[j + 1]
            IN IF IsList(key) /\ Len(key.v) > 0
               THEN IF key.v[1] = StrV("motifs")
                    THEN LeitmotifParts(args, j + 2, [acc EXCEPT !.motifs = Tail(key.v)])
                    ELSE IF ~Hashable(key.v[1]) THEN [acc EXCEPT !.bad = TRUE]
                    ELSE LeitmotifParts(args, j + 2,
                                        [acc EXCEPT !.d = DictSet(@, key.v[1], value)])
               ELSE IF IsStr(key)
                    THEN IF key = StrV("motifs")
                         THEN LeitmotifParts(args, j + 2,
                                [acc EXCEPT !.motifs = IF IsList(value) THEN value.v
                                                       ELSE <<value>>])
                         ELSE LeitmotifParts(args, j + 2,
                                [acc EXCEPT !.d = DictSet(@, key, value)])
                    ELSE LeitmotifParts(args, j + 2, acc)
       ELSE LeitmotifParts(args, j + 2, acc)

define_leitmotif(args, st) ==
  IF Len(args) < 1
  THEN Raise(st, "RuntimeError", "define-leitmotif requires at least a name")
  ELSE LET name == args[1]
           parts == LeitmotifParts(args, 2, [bad |-> FALSE, motifs |-> <<>>, d |-> <<>>])
           leitmotif == Entity("DefineLeitmotif",
                               [name |-> name, motifs |-> parts.motifs,
                                properties |-> parts.d])
       IN IF parts.bad \/ ~Hashable(name) THEN UnhashableList(st)
          ELSE Return([st EXCEPT !.leitmotifs = MapSet(@, name, leitmotif)], leitmotif)

RECURSIVE CompositionStructure(_, _, _)
CompositionStructure(args, j, structure) ==
  IF j > Len(args) THEN [bad |-> FALSE, d |-> structure]
  ELSE IF j + 1 <= Len(args)
       THEN LET key == args[j]
                value == args[j + 1]
            IN IF IsList(key) /\ Len(key.v) > 0
               THEN IF ~Hashable(key.v[1]) THEN [bad |-> TRUE, d |-> structure]
                    ELSE CompositionStructure(args, j + 2,
                           DictSet(structure, key.v[1],
                                   IF Len(key.v) > 1 THEN key.v[2] ELSE value))
               ELSE IF IsStr(key)
                    THEN CompositionStructure(args, j + 2, DictSet(structure, key, value))
                    ELSE CompositionStructure(args, j + 2, structure)
       ELSE CompositionStructure(args, j + 2, structure)

define_composition(args, st) ==
  IF Len(args) < 1
  THEN Raise(st, "RuntimeError", "define-composition requires at least a name")
  ELSE LET name == args[1]
           struct == CompositionStructure(args, 2, <<>>)
           composition == Entity("DefineComposition",
                                 [name |-> name, structure |-> struct.d])
       IN IF struct.bad \/ ~Hashable(name) THEN UnhashableList(st)
          ELSE Return([st EXCEPT !.compositions = MapSet(@, name, composition)],
                      composition)

RECURSIVE ContextProperties(_, _, _)
ContextProperties(args, j, properties) ==
  IF j > Len(args) THEN [bad |-> FALSE, d |-> properties]
  ELSE IF j + 1 <= Len(args)
       THEN LET prop_name == args[j]
                prop_value == args[j + 1]
            IN IF IsList(prop_name) /\ Len(prop_name.v) > 0
               THEN IF ~Hashable(prop_name.v[1]) THEN [bad |-> TRUE, d |-> properties]
                    ELSE ContextProperties(args, j + 2,
                                           DictSet(properties, prop_name.v[1], prop_value))
               ELSE IF IsStr(prop_name)
                    THEN ContextProperties(args, j + 2,
                                           DictSet(properties, prop_name, prop_value))
                    ELSE ContextProperties(args, j + 2, properties)
       ELSE ContextProperties(args, j + 2, properties)

\* define-context returning the property mapping instead of the record
\* it stores.
define_context_properties(args, st) ==
  IF Len(args) < 1
  THEN Raise(st, "RuntimeError", "define-context requires at least a name")
  ELSE LET name == args[1]
           props == ContextProperties(args, 2, <<>>)
           ctx == DictV(<< <<StrV("name"), name>>,
                           <<StrV("properties"), DictV(props.d)>> >>)
       IN IF props.bad \/ ~Hashable(name) THEN UnhashableList(st)
          ELSE Return([st EXCEPT !.context = MapSet(@, name, ctx)], DictV(props.d))

define_context(args, st) ==
  IF Len(args) < 1
  THEN Raise(st, "RuntimeError", "define-context requires at least a name")
  ELSE LET name == args[1]
           props == ContextProperties(args, 2, <<>>)
           ctx == DictV(<< <<StrV("name"), name>>,
                           <<StrV("properties"), DictV(props.d)>> >>)
       IN IF props.bad \/ ~Hashable(name) THEN UnhashableList(st)
          ELSE Return([st EXCEPT !.context = MapSet(@, name, ctx)], ctx)

SeedWords == ListV(<<StrV("night"), StrV("silence"), StrV("distance"), StrV("memory")>>)

define_seed_words(args, st) ==
  IF Len(args) < 1
  THEN Raise(st, "RuntimeError", "define-seed-words requires at least a name")
  ELSE LET name == args[1]
       IN IF ~Hashable(name) THEN UnhashableList(st)
          ELSE Return([st EXCEPT !.symbols = MapSet(@, name, SeedWords)],
                      DictV(<< <<StrV("name"), name>>, <<StrV("words"), SeedWords>> >>))

\* ------------------------------------------------------- lyric synthesis
\* [str(v) for v in value] for a list, [str(value)] otherwise
RECURSIVE StrEach(_)
StrEach(xs) == IF xs = <<>> THEN <<>> ELSE <<PyStr(Head(xs))>> \o StrEach(Tail(xs))
TagSources(value) == IF IsList(value) THEN StrEach(value.v) ELSE <<PyStr(value)>>

\* The first loop of _motif_to_lyrics: acc = [archetypes, metaphors]
RECURSIVE ExtractTags(_, _, _)
ExtractTags(components, i, acc) ==
  IF i > Len(components) THEN acc
  ELSE LET key == components[i][1]
           value == components[i][2]
       IN IF PyContains(PyLower(PyStr(key)), "archetype")
          THEN ExtractTags(components, i + 1,
                           [acc EXCEPT !.archetypes = @ \o TagSources(value)])
          ELSE IF PyContains(PyLower(PyStr(key)), "metaphor")
               THEN ExtractTags(components, i + 1,
                                [acc EXCEPT !.metaphors = @ \o TagSources(value)])
               ELSE ExtractTags(components, i + 1, acc)

CleanTag(s) ==
  PyStrip(PyReplace(PyReplace(PyReplace(PyReplace(s, "'", ""), "[", ""), "]", ""), ",", " "))

InSeq(x, xs) == \E i \in 1..Len(xs) : xs[i] = x

RECURSIVE AddWords(_, _)
AddWords(words, clean) ==
  IF words = <<>> THEN clean
  ELSE AddWords(Tail(words),
                IF Head(words) # "" /\ ~InSeq(Head(words), clean)
                THEN Append(clean, Head(words)) ELSE clean)

\* The clean-up loops: the words of every source, without repeats, in order.
RECURSIVE CleanTags(_, _)
CleanTags(sources, clean) ==
  IF sources = <<>> THEN clean
  ELSE CleanTags(Tail(sources), AddWords(PySplit(CleanTag(Head(sources))), clean))

HeartOceanLines ==
  <<"My heart is like an ocean", "Deep and vast, in endless motion",
    "Waves of love that never cease", "Bringing me both pain and peace">>
PhotographMoonlightLines ==
  <<"In moonlight, I see your photograph", "Fading slowly, but I still laugh",
    "At the memories we made together", "That will last forever and ever">>
AutumnLines ==
  <<"Like autumn leaves, our love did fall", "But memories remain, through it all",
    "Golden moments in my mind", "A love that time could never bind">>
GoodbyeLines ==
  <<"Goodbye, my love, goodbye", "Though we must part, I'll never die",
    "In the garden of my heart", "Your memory will always start">>
HeartOceanMetaphorLines ==
  <<"Your love was deep as the endless sea", "Now I'm drowning in what used to be",
    "Waves of sorrow crash on shore", "But I'll love you forevermore">>
FadingPhotographLines ==
  <<"Time fades the colors of our past", "But the love we shared will always last",
    "In sepia tones and silver light", "Our love still shines so bright">>
AutumnLoveLines ==
  <<"Like autumn leaves that gently fall", "Our love changed, that's all",
    "But beauty lies in every season", "And love needs no special reason">>
MoonlightPromisesLines ==
  <<"Under moonlight we made our vows", "But time has broken all our bows",
    "Still the moon shines just the same", "And whispers your sweet name">>
DefaultLines ==
  <<"In the silence of the night", "I search for what was right",
    "Love and loss, hand in hand", "Walking through this endless land">>

\* The generic lines of the first two archetype tags.
GenericLines(clean_archetypes) ==
  (IF Len(clean_archetypes) >= 1
   THEN <<"In the " \o clean_archetypes[1] \o " of my mind",
          "I find peace of a different kind">>
   ELSE <<>>)
  \o (IF Len(clean_archetypes) >= 2
      THEN <<"The " \o clean_archetypes[2] \o " calls to me", "Across the endless sea">>
      ELSE <<>>)

\* A rule table that tests the metaphor rules before the archetype rules.
RuleLinesMetaphorsFirst(clean_archetypes, clean_metaphors) ==
  (IF InSeq("heart-ocean", clean_metaphors) THEN HeartOceanMetaphorLines ELSE <<>>)
  \o (IF InSeq("fading-photograph", clean_metaphors) THEN FadingPhotographLines ELSE <<>>)
  \o (IF InSeq("autumn-love", clean_metaphors) THEN AutumnLoveLines ELSE <<>>)
  \o (IF InSeq("moonlight-promises", clean_metaphors) THEN MoonlightPromisesLines
      ELSE <<>>)
  \o (IF InSeq("heart", clean_archetypes) /\ InSeq("ocean", clean_archetypes)
      THEN HeartOceanLines ELSE <<>>)
  \o (IF InSeq("photograph", clean_archetypes) /\ InSeq("moonlight", clean_archetypes)
      THEN PhotographMoonlightLines ELSE <<>>)
  \o (IF InSeq("autumn", clean_archetypes) THEN AutumnLines ELSE <<>>)
  \o (IF InSeq("goodbye", clean_archetypes) THEN GoodbyeLines ELSE <<>>)

\* The lines the rule table appends, in the order the rules are tested.
RuleLines(clean_archetypes, clean_metaphors) ==
  (IF InSeq("heart", clean_archetypes) /\ InSeq("ocean", clean_archetypes)
   THEN HeartOceanLines ELSE <<>>)
  \o (IF InSeq("photograph", clean_archetypes) /\ InSeq("moonlight", clean_archetypes)
      THEN PhotographMoonlightLines ELSE <<>>)
  \o (IF InSeq("autumn", clean_archetypes) THEN AutumnLines ELSE <<>>)
  \o (IF InSeq("goodbye", clean_archetypes) THEN GoodbyeLines ELSE <<>>)
  \o (IF InSeq("heart-ocean", clean_metaphors) THEN HeartOceanMetaphorLines ELSE <<>>)
  \o (IF InSeq("fading-photograph", clean_metaphors) THEN FadingPhotographLines ELSE <<>>)
  \o (IF InSeq("autumn-love", clean_metaphors) THEN AutumnLoveLines ELSE <<>>)
  \o (IF InSeq("moonlight-promises", clean_metaphors) THEN MoonlightPromisesLines
      ELSE <<>>)

\* lines without the limit
TakeAll(xs, n) == xs

\* lines[:n]
Take(xs, n) == SubSeq(xs, 1, IF Len(xs) < n THEN Len(xs) ELSE n)

\* sep.join(parts)
RECURSIVE PyJoin(_, _)
PyJoin(sep, parts) ==
  IF parts = <<>> THEN ""
  ELSE IF Len(parts) = 1 THEN parts[1]
  ELSE parts[1] \o sep \o PyJoin(sep, Tail(parts))

LyricLines(components) ==
  LET tags == ExtractTags(components, 1, [archetypes |-> <<>>, metaphors |-> <<>>])
      clean_archetypes == CleanTags(tags.archetypes, <<>>)
      clean_metaphors == CleanTags(tags.metaphors, <<>>)
      lines == RuleLines(clean_archetypes, clean_metaphors)
  IN Take(IF lines # <<>> THEN lines
          ELSE IF clean_archetypes # <<>> THEN GenericLines(clean_archetypes)
          ELSE DefaultLines, 4)

motif_to_lyrics(motif) == PyJoin("\n", LyricLines(motif.v.components))

\* The bucket a motif name selects: the first of verse, chorus, bridge its
\* lower-cased text contains, verses when it contains none.
\* A bucket choice that compares the name as it is written.
SectionOfCaseSensitive(motif_name) ==
  IF PyContains(motif_name, "verse") THEN "verses"
  ELSE IF PyContains(motif_name, "chorus") THEN "choruses"
  ELSE IF PyContains(motif_name, "bridge") THEN "bridges"
  ELSE "verses"

SectionOf(motif_name) ==
  IF PyContains(PyLower(motif_name), "verse") THEN "verses"
  ELSE IF PyContains(PyLower(motif_name), "chorus") THEN "choruses"
  ELSE IF PyContains(PyLower(motif_name), "bridge") THEN "bridges"
  ELSE "verses"

\* motif_name.lower() of a number raises AttributeError.
AddLyrics(acc, motif_name, lyrics) ==
  IF ~IsStr(motif_name) THEN [acc EXCEPT !.bad = TRUE]
  ELSE [acc EXCEPT ![SectionOf(motif_name.v)] = Append(@, lyrics)]

\* The name the motif loop looks up for an element of the motif list.
MotifKey(motif_name) ==
  IF IsList(motif_name)
  THEN StrV(IF Len(motif_name.v) > 0 THEN PyStr(motif_name.v[1]) ELSE PyStr(motif_name))
  ELSE motif_name

\* The motif loop of _generate_suno_text: acc = [bad, verses, choruses, bridges]
RECURSIVE BucketMotifs(_, _, _, _)
BucketMotifs(motif_names, i, acc, st) ==
  IF i > Len(motif_names) \/ acc.bad THEN acc
  ELSE IF MotifKey(motif_names[i]) \in DOMAIN st.motifs
       THEN BucketMotifs(motif_names, i + 1,
                         AddLyrics(acc, MotifKey(motif_names[i]),
                                   motif_to_lyrics(st.motifs[MotifKey(motif_names[i])])),
                         st)
       ELSE BucketMotifs(motif_names, i + 1, acc, st)

RECURSIVE VersePartsLastChorus(_, _, _)
VersePartsLastChorus(verses, i, choruses) ==
  IF i > Len(verses) THEN <<>>
  ELSE <<"[Verse " \o ToString(i) \o "]", verses[i], "">>
       \o (IF choruses # <<>> THEN <<"[Chorus]", choruses[Len(choruses)], "">> ELSE <<>>)
       \o VersePartsLastChorus(verses, i + 1, choruses)

RECURSIVE VerseParts(_, _, _)
VerseParts(verses, i, choruses) ==
  IF i > Len(verses) THEN <<>>
  ELSE <<"[Verse " \o ToString(i) \o "]", verses[i], "">>
       \o (IF choruses # <<>> THEN <<"[Chorus]", choruses[1], "">> ELSE <<>>)
       \o VerseParts(verses, i + 1, choruses)

SongParts(b) ==
  VerseParts(b.verses, 1, b.choruses)
  \o (IF b.bridges # <<>> THEN <<"[Bridge]", b.bridges[1], "">> ELSE <<>>)
  \o (IF b.choruses # <<>> THEN <<"[Chorus]", b.choruses[1], "">> ELSE <<>>)

NoLeitmotif == "No leitmotif found for composition"

\* The leitmotif name _generate_suno_text reads from the composition.
LeitmotifName(composition) ==
  IF DictHas(composition.v.structure, StrV("leitmotif"))
  THEN LET raw == DictGet(composition.v.structure, StrV("leitmotif"))
       IN IF IsList(raw) /\ Len(raw.v) > 0 THEN raw.v[1] ELSE raw
  ELSE None

\* The song text of the buckets, unless the motif loop raised.
SongText(b) ==
  IF b.bad THEN [kind |-> "AttributeError", text |-> ""]
  ELSE [kind |-> "none", text |-> PyJoin("\n", SongParts(b))]

\* [kind |-> "none" or the exception raised, text |-> the song text]
generate_suno_text(composition, st) ==
  LET leitmotif_name == LeitmotifName(composition)
  IN IF ~Truthy(leitmotif_name) THEN [kind |-> "none", text |-> NoLeitmotif]
     ELSE IF ~Hashable(leitmotif_name) THEN [kind |-> "TypeError", text |-> ""]
     ELSE IF leitmotif_name \notin DOMAIN st.leitmotifs
     THEN [kind |-> "none", text |-> NoLeitmotif]
     ELSE SongText(BucketMotifs(st.leitmotifs[leitmotif_name].v.motifs, 1,
                                [bad |-> FALSE, verses |-> <<>>, choruses |-> <<>>,
                                 bridges |-> <<>>], st))

\* ----------------------------------------------------- execution handlers
\* compose once the song text is made: print it and return the result, or
\* pass on what _generate_suno_text raised.
Composed(st, composition_name, song_text) ==
  IF song_text.kind # "none" THEN Raise(st, song_text.kind, "")
  ELSE Return(Printed(st, "SONG TEXT FOR SUNO", <<StrV(song_text.text)>>),
              DictV(<< <<StrV("status"), StrV("composed")>>,
                       <<StrV("composition"), composition_name>>,
                       <<StrV("song_text"), StrV(song_text.text)>> >>))

\* compose answering an undefined name with the placeholder song.
compose_placeholder(args, st) ==
  IF Len(args) < 1 THEN Raise(st, "RuntimeError", "compose requires composition name")
  ELSE LET composition_name == args[1]
       IN IF ~Hashable(composition_name) THEN UnhashableList(st)
          ELSE IF composition_name \notin DOMAIN st.compositions
          THEN Composed(Printed(st, "Composing", <<composition_name>>), composition_name,
                        [kind |-> "none", text |-> NoLeitmotif])
          ELSE Composed(Printed(Printed(st, "Composing", <<composition_name>>),
                                "Structure",
                                <<DictV(st.compositions[composition_name].v.structure)>>),
                        composition_name,
                        generate_suno_text(st.compositions[composition_name], st))

compose(args, st) ==
  IF Len(args) < 1 THEN Raise(st, "RuntimeError", "compose requires composition name")
  ELSE LET composition_name == args[1]
       IN IF ~Hashable(composition_name) THEN UnhashableList(st)
          ELSE IF composition_name \notin DOMAIN st.compositions
          THEN Raise(st, "RuntimeError",
                     "Composition '" \o PyStr(composition_name) \o "' not defined")
          ELSE Composed(Printed(Printed(st, "Composing", <<composition_name>>),
                                "Structure",
                                <<DictV(st.compositions[composition_name].v.structure)>>),
                        composition_name,
                        generate_suno_text(st.compositions[composition_name], st))

\* An execute-motif that uses the motif up: it is no longer defined after.
execute_motif_consuming(args, st) ==
  IF Len(args) < 1 THEN Raise(st, "RuntimeError", "execute-motif requires motif name")
  ELSE LET motif_name == args[1]
       IN IF ~Hashable(motif_name) THEN UnhashableList(st)
          ELSE IF motif_name \notin DOMAIN st.motifs
          THEN Raise(st, "RuntimeError", "Motif '" \o PyStr(motif_name) \o "' not defined")
          ELSE Return(Printed([st EXCEPT !.motifs =
                                 [n \in DOMAIN st.motifs \ {motif_name} |-> st.motifs[n]]],
                              "Executing motif", <<motif_name>>),
                      DictV(<< <<StrV("status"), StrV("executed")>>,
                               <<StrV("motif"), motif_name>> >>))

execute_motif(args, st) ==
  IF Len(args) < 1 THEN Raise(st, "RuntimeError", "execute-motif requires motif name")
  ELSE LET motif_name == args[1]
       IN IF ~Hashable(motif_name) THEN UnhashableList(st)
          ELSE IF motif_name \notin DOMAIN st.motifs
          THEN Raise(st, "RuntimeError", "Motif '" \o PyStr(motif_name) \o "' not defined")
          ELSE Return(Printed(Printed(st, "Executing motif", <<motif_name>>),
                              "Components", <<DictV(st.motifs[motif_name].v.components)>>),
                      DictV(<< <<StrV("status"), StrV("executed")>>,
                               <<StrV("motif"), motif_name>> >>))

\* generate-emotion looking its emotion up, as execute-motif does its motif.
generate_emotion_lookup(args, st) ==
  IF Len(args) < 2
  THEN Raise(st, "RuntimeError", "generate-emotion requires emotion name and intensity")
  ELSE IF ~Hashable(args[1]) THEN UnhashableList(st)
  ELSE IF args[1] \notin DOMAIN st.emotions
  THEN Raise(st, "RuntimeError", "Emotion '" \o PyStr(args[1]) \o "' not defined")
  ELSE Return(Printed(st, "Generating emotion", <<args[1], args[2]>>),
              DictV(<< <<StrV("status"), StrV("generated")>>,
                       <<StrV("emotion"), args[1]>>, <<StrV("intensity"), args[2]>> >>))

generate_emotion(args, st) ==
  IF Len(args) < 2
  THEN Raise(st, "RuntimeError", "generate-emotion requires emotion name and intensity")
  ELSE Return(Printed(st, "Generating emotion", <<args[1], args[2]>>),
              DictV(<< <<StrV("status"), StrV("generated")>>,
                       <<StrV("emotion"), args[1]>>, <<StrV("intensity"), args[2]>> >>))

apply_metaphor(args, st) ==
  IF Len(args) < 3
  THEN Raise(st, "RuntimeError",
             "apply-metaphor requires metaphor name, source, and target")
  ELSE Return(Printed(st, "Applying metaphor", <<args[1], args[2], args[3]>>),
              DictV(<< <<StrV("status"), StrV("applied")>>,
                       <<StrV("metaphor"), args[1]>> >>))

\* ---------------------------------------------------------- ML stubs
PredictedTriggers ==
  ListV(<<StrV("night"), StrV("silence"), StrV("distance"), StrV("memory")>>)

predict_emotional_triggers(args, st) ==
  IF Len(args) < 2
  THEN Raise(st, "RuntimeError",
             "predict-emotional-triggers requires target emotion and context")
  ELSE Return(Printed(Printed(st, "Predicting emotional triggers for", <<args[1]>>),
                      "Context", <<args[2]>>),
              DictV(<< <<StrV("status"), StrV("predicted")>>,
                       <<StrV("triggers"), PredictedTriggers>> >>))

optimize_for_impact(args, st) ==
  IF Len(args) < 2
  THEN Raise(st, "RuntimeError",
             "optimize-for-impact requires composition name and target emotion")
  ELSE Return(Printed(st, "Optimizing", <<args[1], args[2]>>),
              DictV(<< <<StrV("status"), StrV("optimized")>>,
                       <<StrV("composition"), args[1]>>, <<StrV("target"), args[2]>> >>))

ContextAnalysis ==
  DictV(<< <<StrV("political"), StrV("global_uncertainty")>>,
           <<StrV("cultural"), StrV("western_contemporary")>>,
           <<StrV("temporal"), StrV("2024")>> >>)

analyze_context(args, st) ==
  LET context_types == IF args # <<>> THEN args
                       ELSE <<StrV("political"), StrV("cultural"), StrV("temporal")>>
  IN Return(Printed(st, "Analyzing context", <<ListV(context_types)>>),
            DictV(<< <<StrV("status"), StrV("analyzed")>>,
                     <<StrV("context"), ContextAnalysis>> >>))

GeneratedSeedWords ==
  ListV(<<StrV("hammer"), StrV("void"), StrV("echo"), StrV("resonance")>>)

generate_seed_words(args, st) ==
  IF Len(args) < 3
  THEN Raise(st, "RuntimeError",
             "generate-seed-words requires emotion, intensity, and context")
  ELSE Return(Printed(st, "Generating seed words for", <<args[1], args[2]>>),
              DictV(<< <<StrV("status"), StrV("generated")>>,
                       <<StrV("seed_words"), GeneratedSeedWords>> >>))

\* ------------------------------------------------------------ control flow
\* mock_states.get(state_name, False)
MockStates(state_name) ==
  CASE state_name = StrV("melancholy") -> TRUE
    [] state_name = StrV("joy") -> FALSE
    [] state_name = StrV("nostalgia") -> TRUE
    [] state_name = StrV("despair") -> FALSE
    [] OTHER -> FALSE

listener_state(args, st) ==
  IF Len(args) < 1 THEN Raise(st, "RuntimeError", "listener-state requires a state name")
  ELSE IF ~Hashable(args[1]) THEN UnhashableList(st)
  ELSE Return(st, BoolV(MockStates(args[1])))

\* _evaluate_symbol probing motifs before the other definitions.
evaluate_symbol_motifs_first(symbol, st) ==
  IF symbol \in DOMAIN st.symbols THEN st.symbols[symbol]
  ELSE IF symbol \in DOMAIN st.motifs THEN st.motifs[symbol]
  ELSE IF symbol \in DOMAIN st.archetypes THEN st.archetypes[symbol]
  ELSE IF symbol \in DOMAIN st.emotions THEN st.emotions[symbol]
  ELSE IF symbol \in DOMAIN st.metaphors THEN st.metaphors[symbol]
  ELSE IF symbol \in DOMAIN st.leitmotifs THEN st.leitmotifs[symbol]
  ELSE IF symbol \in DOMAIN st.compositions THEN st.compositions[symbol]
  ELSE symbol

\* _evaluate_symbol: the first mapping, in this order, that has the symbol
evaluate_symbol(symbol, st) ==
  IF symbol \in DOMAIN st.symbols THEN st.symbols[symbol]
  ELSE IF symbol \in DOMAIN st.archetypes THEN st.archetypes[symbol]
  ELSE IF symbol \in DOMAIN st.emotions THEN st.emotions[symbol]
  ELSE IF symbol \in DOMAIN st.metaphors THEN st.metaphors[symbol]
  ELSE IF symbol \in DOMAIN st.motifs THEN st.motifs[symbol]
  ELSE IF symbol \in DOMAIN st.leitmotifs THEN st.leitmotifs[symbol]
  ELSE IF symbol \in DOMAIN st.compositions THEN st.compositions[symbol]
  ELSE symbol

RECURSIVE evaluate(_, _)

\* An if that evaluates both branches before it chooses.
if_emotional_state_eager(args, st) ==
  IF Len(args) < 3
  THEN Raise(st, "RuntimeError", "if-emotional-state requires condition, then, and else")
  ELSE LET condition == evaluate(args[1], st)
       IN IF Failed(condition) THEN condition
          ELSE LET then == evaluate(args[2], condition.st)
               IN IF Failed(then) THEN then
                  ELSE LET else == evaluate(args[3], then.st)
                       IN IF Failed(else) THEN else
                          ELSE Return(else.st, IF Truthy(condition.val) THEN then.val
                                               ELSE else.val)

if_emotional_state(args, st) ==
  IF Len(args) < 3
  THEN Raise(st, "RuntimeError", "if-emotional-state requires condition, then, and else")
  ELSE LET condition == evaluate(args[1], st)
       IN IF Failed(condition) THEN condition
          ELSE IF Truthy(condition.val) THEN evaluate(args[2], condition.st)
          ELSE evaluate(args[3], condition.st)

\* for expr in body: result = self._evaluate(expr)
RECURSIVE EvaluateBody(_, _, _)
EvaluateBody(body, st, result) ==
  IF body = <<>> THEN Return(st, result)
  ELSE LET r == evaluate(Head(body), st)
       IN IF Failed(r) THEN r ELSE EvaluateBody(Tail(body), r.st, r.val)

\* A loop that runs its body before it first tests the condition.
WhileLoopBodyFirst(condition, body, st, result, n) ==
  LET b == EvaluateBody(body, st, result)
  IN IF Failed(b) THEN b
     ELSE LET c == evaluate(condition, b.st)
          IN IF Failed(c) THEN c
             ELSE IF ~Truthy(c.val) THEN Return(c.st, b.val)
             ELSE [st |-> c.st, val |-> b.val, err |-> [kind |-> "Looping", msg |-> ""]]

\* A loop that gives up after MaxIter iterations and returns its result.
RECURSIVE WhileLoopCapped(_, _, _, _, _)
WhileLoopCapped(condition, body, st, result, n) ==
  LET c == evaluate(condition, st)
  IN IF Failed(c) THEN c
     ELSE IF ~Truthy(c.val) \/ n >= MaxIter THEN Return(c.st, result)
     ELSE LET b == EvaluateBody(body, c.st, result)
          IN IF Failed(b) THEN b ELSE WhileLoopCapped(condition, body, b.st, b.val, n + 1)

\* The loop of _while_emotional_state, followed for MaxIter iterations: a
\* loop that is still running then is reported as "Looping" (it has neither
\* returned nor raised).
RECURSIVE WhileLoop(_, _, _, _, _)
WhileLoop(condition, body, st, result, n) ==
  LET c == evaluate(condition, st)
  IN IF Failed(c) THEN c
     ELSE IF ~Truthy(c.val) THEN Return(c.st, result)
     ELSE IF n >= MaxIter
     THEN [st |-> c.st, val |-> result, err |-> [kind |-> "Looping", msg |-> ""]]
     ELSE LET b == EvaluateBody(body, c.st, result)
          IN IF Failed(b) THEN b ELSE WhileLoop(condition, body, b.st, b.val, n + 1)

while_emotional_state(args, st) ==
  IF Len(args) < 2
  THEN Raise(st, "RuntimeError", "while-emotional-state requires condition and body")
  ELSE WhileLoop(args[1], IF IsList(args[2]) THEN args[2].v ELSE <<args[2]>>, st, None, 0)

\* --------------------------------------------------------------- dispatch
evaluate_list(expression, st) ==
  IF expression = <<>> THEN Return(st, None)
  ELSE LET operator == Head(expression)
           args == Tail(expression)
       IN CASE operator = StrV("define-archetype") -> define_archetype(args, st)
            [] operator = StrV("define-image") -> define_image(args, st)
            [] operator = StrV("define-emotion") -> define_emotion(args, st)
            [] operator = StrV("define-metaphor") -> define_metaphor(args, st)
            [] operator = StrV("define-motif") -> define_motif(args, st)
            [] operator = StrV("define-leitmotif") -> define_leitmotif(args, st)
            [] operator = StrV("define-composition") -> define_composition(args, st)
            [] operator = StrV("define-context") -> define_context(args, st)
            [] operator = StrV("define-seed-words") -> define_seed_words(args, st)
            [] operator = StrV("compose") -> compose(args, st)
            [] operator = StrV("execute-motif") -> execute_motif(args, st)
            [] operator = StrV("generate-emotion") -> generate_emotion(args, st)
            [] operator = StrV("apply-metaphor") -> apply_metaphor(args, st)
            [] operator = StrV("if-emotional-state") -> if_emotional_state(args, st)
            [] operator = StrV("while-emotional-state") -> while_emotional_state(args, st)
            [] operator = StrV("listener-state") -> listener_state(args, st)
            [] operator = StrV("predict-emotional-triggers") ->
                 predict_emotional_triggers(args, st)
            [] operator = StrV("optimize-for-impact") -> optimize_for_impact(args, st)
            [] operator = StrV("analyze-context") -> analyze_context(args, st)
            [] operator = StrV("generate-seed-words") -> generate_seed_words(args, st)
            [] OTHER -> Raise(st, "RuntimeError", "Unknown operator: " \o PyStr(operator))

\* An _evaluate that takes a list whose head is no symbol for data.
evaluate_data_lists(expression, st) ==
  LET st1 == [st EXCEPT !.trace = Append(@, expression)]
  IN IF IsList(expression)
     THEN IF expression.v # <<>> /\ ~IsStr(Head(expression.v)) THEN Return(st1, expression)
          ELSE evaluate_list(expression.v, st1)
     ELSE IF IsStr(expression) THEN Return(st1, evaluate_symbol(expression, st1))
     ELSE Return(st1, expression)

\* _evaluate; every call is recorded in st.trace
evaluate(expression, st) ==
  LET st1 == [st EXCEPT !.trace = Append(@, expression)]
  IN IF IsList(expression) THEN evaluate_list(expression.v, st1)
     ELSE IF IsStr(expression) THEN Return(st1, evaluate_symbol(expression, st1))
     ELSE Return(st1, expression)

\* ------------------------------------------------------------------ lexer
Token(type, value, ln, col) == [type |-> type, value |-> value, line |-> ln, column |-> col]

\* text[p] for a 0-based position p
At(txt, p) == Char(txt, p + 1)

\* _skip_whitespace from the cursor c = [position, line, column]
RECURSIVE SkipWhitespace(_, _)
SkipWhitespace(txt, c) ==
  IF c.position < Len(txt) /\ IsSpace(At(txt, c.position))
  THEN SkipWhitespace(txt,
         IF At(txt, c.position) = "\n"
         THEN [position |-> c.position + 1, line |-> c.line + 1, column |-> 1]
         ELSE [position |-> c.position + 1, line |-> c.line, column |-> c.column + 1])
  ELSE c

\* _advance
Advance(txt, p) == IF p < Len(txt) THEN p + 1 ELSE p

\* The loop of _tokenize_string, from the position after the opening quote,
\* and the step over the closing quote.
RECURSIVE StringBody(_, _)
StringBody(txt, p) ==
  IF p < Len(txt) /\ At(txt, p) # "\""
  THEN StringBody(txt, Advance(txt, IF At(txt, p) = "\\" THEN Advance(txt, p) ELSE p))
  ELSE p
StringEnd(txt, start) == Advance(txt, StringBody(txt, Advance(txt, start)))

RECURSIVE CommentEnd(_, _)
CommentEnd(txt, p) ==
  IF p < Len(txt) /\ At(txt, p) # "\n" THEN CommentEnd(txt, Advance(txt, p)) ELSE p

RECURSIVE NumberBody(_, _)
NumberBody(txt, p) ==
  IF p < Len(txt) /\ (IsDigit(At(txt, p)) \/ At(txt, p) = ".")
  THEN NumberBody(txt, Advance(txt, p)) ELSE p
NumberEnd(txt, start) ==
  NumberBody(txt, IF At(txt, start) = "-" THEN Advance(txt, start) ELSE start)

RECURSIVE SymbolEnd(_, _)
SymbolEnd(txt, p) ==
  IF p < Len(txt) /\ (IsAlnum(At(txt, p)) \/ At(txt, p) \in {"-", "_"})
  THEN SymbolEnd(txt, Advance(txt, p)) ELSE p

\* The branch tokenize takes at a character.
Branch(char) ==
  IF char = "(" THEN "LPAREN"
  ELSE IF char = ")" THEN "RPAREN"
  ELSE IF char = "\"" THEN "STRING"
  ELSE IF char = ";" THEN "COMMENT"
  ELSE IF IsDigit(char) \/ char = "-" THEN "NUMBER"
  ELSE IF IsAlpha(char) \/ char \in {"-", "_"} THEN "SYMBOL"
  ELSE "skip"

\* Where the token that starts at start ends.
TokenEnd(txt, branch, start) ==
  CASE branch = "STRING" -> StringEnd(txt, start)
    [] branch = "COMMENT" -> CommentEnd(txt, start)
    [] branch = "NUMBER" -> NumberEnd(txt, start)
    [] branch = "SYMBOL" -> SymbolEnd(txt, start)
    [] OTHER -> Advance(txt, start)

\* ----------------------------------------------------------------- parser
\* int(value) / float(value) of a number token: [ok, val]
RECURSIVE DigitsValue(_, _)
DigitsValue(ds, acc) ==
  IF ds = "" THEN acc
  ELSE DigitsValue(Tail(ds),
                   10 * acc + (CHOOSE d \in 0..9 : ToString(d) = Head(ds)))
AllDigits(ds) == \A i \in 1..Len(ds) : IsDigit(Char(ds, i))
RECURSIVE StripZeros(_)
StripZeros(ds) ==
  IF ds # "" /\ Char(ds, Len(ds)) = "0" THEN StripZeros(SubSeq(ds, 1, Len(ds) - 1)) ELSE ds
DotAt(body) == CHOOSE i \in 1..Len(body) : Char(body, i) = "."

\* body is the lexeme without its sign
NumberOf(neg, body) ==
  IF PyContains(body, ".")
  THEN LET whole == SubSeq(body, 1, DotAt(body) - 1)
           frac == SubSeq(body, DotAt(body) + 1, Len(body))
       IN IF AllDigits(whole) /\ AllDigits(frac) /\ whole \o frac # ""
          THEN [ok |-> TRUE, val |-> FloatV(neg, DigitsValue(whole, 0), StripZeros(frac))]
          ELSE [ok |-> FALSE, val |-> None]
  ELSE IF body # "" /\ AllDigits(body)
       THEN [ok |-> TRUE,
             val |-> IntV(IF neg THEN 0 - DigitsValue(body, 0) ELSE DigitsValue(body, 0))]
       ELSE [ok |-> FALSE, val |-> None]

parse_number(value) ==
  IF value # "" /\ Head(value) = "-" THEN NumberOf(TRUE, Tail(value))
  ELSE NumberOf(FALSE, value)

\* A parser that strips the opening quote only: token.value[1:]
parse_string_open(value) == StrV(SubSeq(value, 2, Len(value)))

\* token.value[1:-1]
parse_string(value) == StrV(SubSeq(value, 2, Len(value) - 1))

\* ------------------------------------------------------------- the state
\* MOTIFLexer: text, position, line, column, tokens.
\* MOTIFParser: tokens, ppos (its position), and the recursion of _parse_list
\* as stack, the elements read so far of every list that is still open,
\* innermost last; ast is the list of expressions parse is building, then
\* the tree interpret is given.
\* MOTIFInterpreter: its fields; out is what it has printed; trace is the
\* _evaluate calls of the top-level expression evaluated last; result is
\* interpret's local result; pc counts the top-level expressions evaluated;
\* expr is the last of them, and before is what the fields, the output and
\* result were when its evaluation started.
\* original is the tree whose printed form is being read again, None until
\* a tree has been printed.
\* phase is where interpret_motif is (lex, parse, interpret) and error is the
\* exception that has been raised, if any.
VARIABLES text, position, line, column, tokens, ppos, stack, ast, phase, error,
          symbols, archetypes, emotions, metaphors, motifs, leitmotifs,
          compositions, context, out, trace, result, pc, expr, before, original

lexer == <<text, position, line, column>>
parser == <<ppos, stack>>
store == <<symbols, archetypes, emotions, metaphors, motifs, leitmotifs,
           compositions, context>>
interp == <<symbols, archetypes, emotions, metaphors, motifs, leitmotifs,
            compositions, context, out, trace, result, pc, expr, before, original>>
vars == <<text, position, line, column, tokens, ppos, stack, ast, phase, error,
          symbols, archetypes, emotions, metaphors, motifs, leitmotifs,
          compositions, context, out, trace, result, pc, expr, before, original>>

Interpreter ==
  [symbols |-> symbols, archetypes |-> archetypes, emotions |-> emotions,
   metaphors |-> metaphors, motifs |-> motifs, leitmotifs |-> leitmotifs,
   compositions |-> compositions, context |-> context, out |-> out, trace |-> <<>>]

Snapshot ==
  [symbols |-> symbols, archetypes |-> archetypes, emotions |-> emotions,
   metaphors |-> metaphors, motifs |-> motifs, leitmotifs |-> leitmotifs,
   compositions |-> compositions, context |-> context, out |-> out, result |-> result]

\* MOTIFInterpreter()
InitInterpreter ==
  /\ symbols = NewInterpreter.symbols
  /\ archetypes = NewInterpreter.archetypes
  /\ emotions = NewInterpreter.emotions
  /\ metaphors = NewInterpreter.metaphors
  /\ motifs = NewInterpreter.motifs
  /\ leitmotifs = NewInterpreter.leitmotifs
  /\ compositions = NewInterpreter.compositions
  /\ context = NewInterpreter.context
  /\ out = NewInterpreter.out
  /\ trace = NewInterpreter.trace
  /\ result = None
  /\ error = NoError
  /\ pc = 0
  /\ expr = None
  /\ before = [symbols |-> EmptyMap, archetypes |-> EmptyMap, emotions |-> EmptyMap,
               metaphors |-> EmptyMap, motifs |-> EmptyMap, leitmotifs |-> EmptyMap,
               compositions |-> EmptyMap, context |-> EmptyMap, out |-> <<>>,
               result |-> None]

\* MOTIFLexer(text)
InitLexer(code) ==
  /\ text = code
  /\ position = 0
  /\ line = 1
  /\ column = 1
  /\ tokens = <<>>

\* MOTIFParser(tokens)
InitParser ==
  /\ ppos = 0
  /\ stack = <<>>
  /\ ast = <<>>
  /\ original = None

\* ---------------------------------------------------------------- tokenize
Cursor == SkipWhitespace(text, [position |-> position, line |-> line, column |-> column])
CurrentBranch == Branch(At(text, Cursor.position))

\* A paren: the token is added, then the cursor advances.
LexParen ==
  /\ phase = "lex"
  /\ Cursor.position < Len(text)
  /\ CurrentBranch \in {"LPAREN", "RPAREN"}
  /\ tokens' = Append(tokens, Token(CurrentBranch, At(text, Cursor.position),
                                    Cursor.line, Cursor.column))
  /\ position' = Cursor.position + 1
  /\ line' = Cursor.line
  /\ column' = Cursor.column + 1
  /\ UNCHANGED <<text, parser, ast, phase, error, interp>>

\* A string, comment, number or symbol: the cursor advances over it, then
\* the token is added with the line and column the cursor has reached.
Scanned(branch, start, end) ==
  /\ tokens' = Append(tokens, Token(branch, SubSeq(text, start + 1, end),
                                    Cursor.line, Cursor.column + (end - start)))
  /\ position' = end
  /\ line' = Cursor.line
  /\ column' = Cursor.column + (end - start)
  /\ UNCHANGED <<text, parser, ast, phase, error, interp>>

\* A lexer that rejects a string with no closing quote.
LexStringStrict ==
  /\ phase = "lex"
  /\ Cursor.position < Len(text)
  /\ CurrentBranch = "STRING"
  /\ IF At(text, TokenEnd(text, "STRING", Cursor.position) - 1) = "\""
        /\ TokenEnd(text, "STRING", Cursor.position) > Cursor.position + 1
     THEN Scanned("STRING", Cursor.position, TokenEnd(text, "STRING", Cursor.position))
     ELSE /\ error' = [kind |-> "SyntaxError", msg |-> "Unterminated string"]
          /\ UNCHANGED <<lexer, tokens, parser, ast, phase, interp>>

LexString ==
  /\ phase = "lex"
  /\ Cursor.position < Len(text)
  /\ CurrentBranch = "STRING"
  /\ Scanned("STRING", Cursor.position, TokenEnd(text, "STRING", Cursor.position))

LexComment ==
  /\ phase = "lex"
  /\ Cursor.position < Len(text)
  /\ CurrentBranch = "COMMENT"
  /\ Scanned("COMMENT", Cursor.position, TokenEnd(text, "COMMENT", Cursor.position))

LexNumber ==
  /\ phase = "lex"
  /\ Cursor.position < Len(text)
  /\ CurrentBranch = "NUMBER"
  /\ Scanned("NUMBER", Cursor.position, TokenEnd(text, "NUMBER", Cursor.position))

LexSymbol ==
  /\ phase = "lex"
  /\ Cursor.position < Len(text)
  /\ CurrentBranch = "SYMBOL"
  /\ Scanned("SYMBOL", Cursor.position, TokenEnd(text, "SYMBOL", Cursor.position))

\* Any other character is stepped over.
LexSkip ==
  /\ phase = "lex"
  /\ Cursor.position < Len(text)
  /\ CurrentBranch = "skip"
  /\ position' = Cursor.position + 1
  /\ line' = Cursor.line
  /\ column' = Cursor.column + 1
  /\ UNCHANGED <<text, tokens, parser, ast, phase, error, interp>>

\* The end of the text: the EOF token; parse_motif goes on to the parser.
LexEnd ==
  /\ phase = "lex"
  /\ Cursor.position >= Len(text)
  /\ tokens' = Append(tokens, Token("EOF", "", Cursor.line, Cursor.column))
  /\ position' = Cursor.position
  /\ line' = Cursor.line
  /\ column' = Cursor.column
  /\ phase' = "parse"
  /\ UNCHANGED <<text, parser, ast, error, interp>>

\* ------------------------------------------------------------------- parse
is_at_end == IF ppos >= Len(tokens) THEN TRUE ELSE tokens[ppos + 1].type = "EOF"
peek == IF ppos >= Len(tokens) THEN tokens[Len(tokens)] ELSE tokens[ppos + 1]
check(type) == ~is_at_end /\ peek.type = type

\* An expression is complete: it joins the innermost open list, or the
\* expressions of the program.
Completed(expression) ==
  IF stack = <<>>
  THEN ast' = Append(ast, expression) /\ UNCHANGED stack
  ELSE stack' = [stack EXCEPT ![Len(stack)] = Append(@, expression)] /\ UNCHANGED ast

SyntaxError(msg) == [kind |-> "SyntaxError", msg |-> msg]
Where == "line " \o ToString(peek.line) \o ", column " \o ToString(peek.column)

\* A comment where an expression may start, in parse or in _parse_list.
ParseComment ==
  /\ phase = "parse" /\ error = NoError
  /\ check("COMMENT")
  /\ ppos' = ppos + 1
  /\ UNCHANGED <<lexer, tokens, stack, ast, phase, error, interp>>

\* _parse_list consumes the '(' and starts reading the elements.
ParseOpen ==
  /\ phase = "parse" /\ error = NoError
  /\ check("LPAREN")
  /\ ppos' = ppos + 1
  /\ stack' = Append(stack, <<>>)
  /\ UNCHANGED <<lexer, tokens, ast, phase, error, interp>>

\* _parse_string, _parse_number, _parse_symbol
ParseAtom ==
  /\ phase = "parse" /\ error = NoError
  /\ ~is_at_end
  /\ peek.type \in {"STRING", "NUMBER", "SYMBOL"}
  /\ ppos' = ppos + 1
  /\ IF peek.type = "NUMBER" /\ ~parse_number(peek.value).ok
     THEN /\ error' = SyntaxError("Invalid number: " \o peek.value)
          /\ UNCHANGED <<stack, ast>>
     ELSE /\ Completed(CASE peek.type = "STRING" -> parse_string(peek.value)
                         [] peek.type = "NUMBER" -> parse_number(peek.value).val
                         [] OTHER -> StrV(peek.value))
          /\ UNCHANGED error
  /\ UNCHANGED <<lexer, tokens, phase, interp>>

\* The ')' of the innermost open list: _parse_list returns its elements.
ParseClose ==
  /\ phase = "parse" /\ error = NoError
  /\ stack # <<>>
  /\ check("RPAREN")
  /\ ppos' = ppos + 1
  /\ IF Len(stack) = 1
     THEN ast' = Append(ast, ListV(stack[1])) /\ stack' = <<>>
     ELSE /\ stack' = [SubSeq(stack, 1, Len(stack) - 1) EXCEPT
                         ![Len(stack) - 1] = Append(@, ListV(stack[Len(stack)]))]
          /\ UNCHANGED ast
  /\ UNCHANGED <<lexer, tokens, phase, error, interp>>

\* A ')' where parse expects an expression.
ParseUnexpected ==
  /\ phase = "parse" /\ error = NoError
  /\ stack = <<>>
  /\ check("RPAREN")
  /\ error' = SyntaxError("Unexpected token: " \o peek.value)
  /\ UNCHANGED <<lexer, tokens, parser, ast, phase, interp>>

\* A parser that closes, at the end of the tokens, the lists still open.
ParseMissingCloseLenient ==
  /\ phase = "parse" /\ error = NoError
  /\ stack # <<>>
  /\ is_at_end
  /\ IF Len(stack) = 1
     THEN ast' = Append(ast, ListV(stack[1])) /\ stack' = <<>>
     ELSE /\ stack' = [SubSeq(stack, 1, Len(stack) - 1) EXCEPT
                         ![Len(stack) - 1] = Append(@, ListV(stack[Len(stack)]))]
          /\ UNCHANGED ast
  /\ UNCHANGED <<lexer, tokens, ppos, phase, error, interp>>

\* The end of the tokens inside a list: _consume(RPAREN) raises.
ParseMissingClose ==
  /\ phase = "parse" /\ error = NoError
  /\ stack # <<>>
  /\ is_at_end
  /\ error' = SyntaxError("Expected ')' at " \o Where)
  /\ UNCHANGED <<lexer, tokens, parser, ast, phase, interp>>

\* The end of the tokens: parse returns the expressions, and interpret_motif
\* hands them to a new interpreter.
ParseReturn ==
  /\ phase = "parse" /\ error = NoError
  /\ stack = <<>>
  /\ is_at_end
  /\ phase' = "interpret"
  /\ UNCHANGED <<lexer, tokens, parser, ast, error, interp>>

\* ------------------------------------------------------------- interpret
\* What an evaluation leaves: the fields, the output, and either the value
\* assigned to result or the exception that leaves interpret's loop.
Evaluated(r, expression) ==
  /\ symbols' = r.st.symbols
  /\ archetypes' = r.st.archetypes
  /\ emotions' = r.st.emotions
  /\ metaphors' = r.st.metaphors
  /\ motifs' = r.st.motifs
  /\ leitmotifs' = r.st.leitmotifs
  /\ compositions' = r.st.compositions
  /\ context' = r.st.context
  /\ out' = r.st.out
  /\ trace' = r.st.trace
  /\ result' = IF Failed(r) THEN result ELSE r.val
  /\ error' = r.err
  /\ pc' = pc + 1
  /\ expr' = expression
  /\ before' = Snapshot
  /\ UNCHANGED original

\* A loop that catches the exception and goes on with the next expression.
InterpretNextAfterError(expression) ==
  /\ phase = "interpret"
  /\ Evaluated(evaluate(expression, Interpreter), expression)
  /\ UNCHANGED <<lexer, tokens, parser, ast, phase>>

\* One iteration of interpret's loop: result = self._evaluate(expression).
\* An exception leaves the loop: nothing is evaluated after it.
InterpretNext(expression) ==
  /\ phase = "interpret"
  /\ error = NoError
  /\ Evaluated(evaluate(expression, Interpreter), expression)
  /\ UNCHANGED <<lexer, tokens, parser, ast, phase>>

\* An interpreter fed the expressions as the parser completes them.
InterpretWhileParsing ==
  /\ pc < Len(ast)
  /\ phase \in {"parse", "interpret"}
  /\ error = NoError
  /\ Evaluated(evaluate(ast[pc + 1], Interpreter), ast[pc + 1])
  /\ UNCHANGED <<lexer, tokens, parser, ast, phase>>

\* interpret(ast) over the tree parse returned
Interpret ==
  /\ pc < Len(ast)
  /\ InterpretNext(ast[pc + 1])

Call(operator, args) == ListV(<<StrV(operator)>> \o args)

\* ----------------------------------------------------- the programs' parts
night == StrV("night")
song == StrV("song")
Pair(k, val) == ListV(<<StrV(k), val>>)
Weight == FloatV(FALSE, 0, "9")

DefineArchetypeArgs ==
  { <<>>, <<night>>, <<ListV(<<night>>)>>,
    <<night, StrV("emotional-weight"), Weight>>,
    <<night, StrV("origin"), StrV("dusk")>>,
    <<night, Pair("emotional-weight", Weight)>>,
    <<night, Pair("emotional-weight", Weight), Pair("origin", StrV("dusk"))>> }
DefineImageArgs ==
  { <<>>, <<night>>, <<night, StrV("sight"), StrV("dark")>>,
    <<night, Pair("sight", StrV("dark")), Pair("sound", StrV("quiet"))>> }
DefineEmotionArgs ==
  { <<>>, <<night>>, <<night, Pair("intensity", Weight), StrV("deep")>> }
DefineMetaphorArgs ==
  { <<>>, <<night>>, <<night, StrV("heart")>>, <<night, StrV("heart"), StrV("ocean")>>,
    <<night, StrV("heart"), StrV("ocean"), StrV("multiplier"), IntV(2)>> }
DefineMotifArgs ==
  { <<>>, <<night>>,
    <<night, StrV("archetypes"), ListV(<<StrV("autumn")>>)>>,
    <<night, StrV("metaphors"), ListV(<<StrV("autumn-love")>>)>>,
    <<StrV("m"), Pair("archetypes", ListV(<<night>>)),
      Pair("emotional-target", StrV("melancholy"))>> }
DefineLeitmotifArgs ==
  { <<>>, <<night>>, <<night, StrV("motifs"), ListV(<<night>>)>>,
    <<night, Pair("motifs", night), Pair("repetition", StrV("infinite"))>> }
DefineCompositionArgs ==
  { <<>>, <<night>>, <<song, StrV("leitmotif"), night>>,
    <<song, Pair("leitmotif", night), Pair("structure", StrV("single-motif"))>> }
DefineContextArgs == { <<>>, <<night>>, <<night, StrV("era"), StrV("modern")>> }
DefineSeedWordsArgs == { <<>>, <<night>>, <<night, StrV("extra")>> }
ComposeArgs == { <<>>, <<night>>, <<song>>, <<ListV(<<song>>)>> }
ExecuteMotifArgs == { <<>>, <<night>>, <<StrV("m")>> }
GenerateEmotionArgs == { <<>>, <<night>>, <<night, FloatV(FALSE, 0, "1")>> }
ApplyMetaphorArgs == { <<night, StrV("heart")>>, <<night, StrV("heart"), StrV("ocean")>> }
Despair == Call("listener-state", <<StrV("despair")>>)
Melancholy == Call("listener-state", <<StrV("melancholy")>>)
Calm == Call("generate-emotion", <<StrV("calm"), FloatV(FALSE, 0, "1")>>)
IfArgs ==
  { <<Despair, night>>,
    <<Despair, Call("define-archetype", <<night>>), Call("define-emotion", <<night>>)>>,
    <<Melancholy, Call("define-archetype", <<night>>), Call("no-such-operator", <<>>)>> }
WhileArgs ==
  { <<Despair>>, <<Despair, Calm>>, <<Melancholy, Calm>>,
    <<Despair, ListV(<<Call("define-motif", <<night>>), Call("compose", <<song>>)>>)>>,
    <<Melancholy, ListV(<<Call("define-emotion", <<night>>),
                          Call("execute-motif", <<StrV("unknown")>>)>>)>>,
    <<IntV(0), Call("define-archetype", <<night>>)>>,
    <<ListV(<<>>), ListV(<<Call("execute-motif", <<night>>)>>)>>,
    <<Call("compose", <<song>>), Calm>> }
ListenerStateArgs ==
  { <<>>, <<StrV("despair")>>, <<StrV("melancholy")>>, <<StrV("bored")>> }
PredictArgs == { <<night>>, <<StrV("melancholy"), StrV("modern")>> }
OptimizeArgs == { <<song>>, <<song, StrV("melancholy")>> }
AnalyzeArgs == { <<>>, <<StrV("political")>> }
GenerateSeedWordsArgs ==
  { <<night, Weight>>, <<StrV("melancholy"), Weight, StrV("modern")>> }
\* Expressions that are not calls of a known operator.
Atoms == { night, song, StrV("m"), StrV("unknown"), IntV(0), Weight }
OtherLists ==
  { ListV(<<>>), Call("no-such-operator", <<night>>), ListV(<<night, night>>),
    ListV(<<IntV(1)>>), ListV(<<Call("define-archetype", <<night>>)>>) }

\* ------------------------------------------------- one action per handler
\* An interpreter that is handed its expressions one at a time, MaxProg of
\* them at most: the handler's action is interpret's step for a call of it.
DefineArchetype ==
  \E args \in DefineArchetypeArgs :
    /\ pc < MaxProg
    /\ InterpretNext(Call("define-archetype", args))

DefineImage ==
  \E args \in DefineImageArgs :
    /\ pc < MaxProg
    /\ InterpretNext(Call("define-image", args))

DefineEmotion ==
  \E args \in DefineEmotionArgs :
    /\ pc < MaxProg
    /\ InterpretNext(Call("define-emotion", args))

DefineMetaphor ==
  \E args \in DefineMetaphorArgs :
    /\ pc < MaxProg
    /\ InterpretNext(Call("define-metaphor", args))

DefineMotif ==
  \E args \in DefineMotifArgs :
    /\ pc < MaxProg
    /\ InterpretNext(Call("define-motif", args))

DefineLeitmotif ==
  \E args \in DefineLeitmotifArgs :
    /\ pc < MaxProg
    /\ InterpretNext(Call("define-leitmotif", args))

DefineComposition ==
  \E args \in DefineCompositionArgs :
    /\ pc < MaxProg
    /\ InterpretNext(Call("define-composition", args))

DefineContext ==
  \E args \in DefineContextArgs :
    /\ pc < MaxProg
    /\ InterpretNext(Call("define-context", args))

DefineSeedWords ==
  \E args \in DefineSeedWordsArgs :
    /\ pc < MaxProg
    /\ InterpretNext(Call("define-seed-words", args))

Compose ==
  \E args \in ComposeArgs :
    /\ pc < MaxProg
    /\ InterpretNext(Call("compose", args))

ExecuteMotif ==
  \E args \in ExecuteMotifArgs :
    /\ pc < MaxProg
    /\ InterpretNext(Call("execute-motif", args))

GenerateEmotion ==
  \E args \in GenerateEmotionArgs :
    /\ pc < MaxProg
    /\ InterpretNext(Call("generate-emotion", args))

ApplyMetaphor ==
  \E args \in ApplyMetaphorArgs :
    /\ pc < MaxProg
    /\ InterpretNext(Call("apply-metaphor", args))

IfEmotionalState ==
  \E args \in IfArgs :
    /\ pc < MaxProg
    /\ InterpretNext(Call("if-emotional-state", args))

WhileEmotionalState ==
  \E args \in WhileArgs :
    /\ pc < MaxProg
    /\ InterpretNext(Call("while-emotional-state", args))

ListenerState ==
  \E args \in ListenerStateArgs :
    /\ pc < MaxProg
    /\ InterpretNext(Call("listener-state", args))

PredictEmotionalTriggers ==
  \E args \in PredictArgs :
    /\ pc < MaxProg
    /\ InterpretNext(Call("predict-emotional-triggers", args))

OptimizeForImpact ==
  \E args \in OptimizeArgs :
    /\ pc < MaxProg
    /\ InterpretNext(Call("optimize-for-impact", args))

AnalyzeContext ==
  \E args \in AnalyzeArgs :
    /\ pc < MaxProg
    /\ InterpretNext(Call("analyze-context", args))

GenerateSeedWords ==
  \E args \in GenerateSeedWordsArgs :
    /\ pc < MaxProg
    /\ InterpretNext(Call("generate-seed-words", args))

EvaluateAtom ==
  \E a \in Atoms :
    /\ pc < MaxProg
    /\ InterpretNext(a)

EvaluateOtherList ==
  \E e \in OtherLists :
    /\ pc < MaxProg
    /\ InterpretNext(e)

Next ==
  \/ DefineArchetype \/ DefineImage \/ DefineEmotion \/ DefineMetaphor \/ DefineMotif
  \/ DefineLeitmotif \/ DefineComposition \/ DefineContext \/ DefineSeedWords
  \/ Compose \/ ExecuteMotif \/ GenerateEmotion \/ ApplyMetaphor
  \/ IfEmotionalState \/ WhileEmotionalState \/ ListenerState
  \/ PredictEmotionalTriggers \/ OptimizeForImpact \/ AnalyzeContext \/ GenerateSeedWords
  \/ EvaluateAtom \/ EvaluateOtherList

\* MOTIFInterpreter().interpret(...): no text is lexed or parsed.
Init ==
  /\ InitLexer("")
  /\ InitParser
  /\ InitInterpreter
  /\ phase = "interpret"

Spec == Init /\ [][Next]_vars

\* ------------------------------------------------- parse, on any tokens
\* Tokens of every type, one of them a number token int() rejects.
MaxTokens == 4
SampleTokens ==
  { Token("LPAREN", "(", 1, 1), Token("RPAREN", ")", 1, 1), Token("SYMBOL", "night", 1, 1),
    Token("STRING", "\"dusk\"", 1, 1), Token("NUMBER", "0.9", 1, 1),
    Token("NUMBER", "-", 1, 1), Token("COMMENT", ";; note", 1, 1), Token("EOF", "", 1, 1) }
RECURSIVE TokenSeqs(_)
TokenSeqs(n) ==
  IF n = 0 THEN {<<>>}
  ELSE {<<>>} \cup {<<t>> \o ts : t \in SampleTokens, ts \in TokenSeqs(n - 1)}

\* MOTIFParser(tokens).parse()
InitParse ==
  /\ text = ""
  /\ position = 0
  /\ line = 1
  /\ column = 1
  /\ tokens \in TokenSeqs(MaxTokens)
  /\ InitParser
  /\ InitInterpreter
  /\ phase = "parse"

NextParse ==
  \/ ParseComment \/ ParseOpen \/ ParseAtom \/ ParseClose
  \/ ParseUnexpected \/ ParseMissingClose \/ ParseReturn

SpecParse == InitParse /\ [][NextParse]_vars

\* ------------------------------------------------ interpret_motif(code)
\* Every text of MaxText characters at most, and some programs.
MaxText == 3
Alphabet == {"(", ")", "\"", ";", "-", ".", "1", "a", " ", "\n", "\\", "#"}
RECURSIVE Texts(_)
Texts(n) ==
  IF n = 0 THEN {""}
  ELSE {""} \cup {c \o t : c \in Alphabet, t \in Texts(n - 1)}

Programs ==
  { "(define-archetype night (emotional-weight 0.9)",
    "(define-archetype night (emotional-weight 0.9))\n(define-motif m (archetypes (night)) (emotional-target melancholy))",
    "(define-archetype night) (define-motif m) (compose song",
    "(define-motif night) )(define-archetype night)",
    "(define-archetype night)\n(compose song)\n(define-motif night)",
    "(define-emotion calm) (execute-motif calm) calm",
    "(define-image night) 1.2.3 (define-emotion night)",
    "(define-archetype night) \"night\"",
    "(define-leitmotif L (motifs a b))",
    "(while-emotional-state (listener-state nostalgia) ((define-archetype night) (generate-emotion night 1)))\n(define-emotion e)",
    "(define-motif verse-a archetypes (autumn)) (define-motif verse-b archetypes (heart ocean))\n(define-leitmotif L (motifs (verse-a ghost verse-b)) (repetition infinite))\n(define-composition song leitmotif L) (compose song)",
    "(define-archetype night)\n(while-emotional-state (listener-state melancholy) ((define-motif m) (compose song)))\n(define-emotion e)",
    ";; a song\n(define-motif night archetypes (autumn))\n(define-leitmotif L motifs (night))\n(define-composition song leitmotif L)\n(compose song) ; done" }

InitRun ==
  /\ \E code \in Texts(MaxText) \cup Programs : InitLexer(code)
  /\ InitParser
  /\ InitInterpreter
  /\ phase = "lex"

NextRun ==
  \/ LexParen \/ LexString \/ LexComment \/ LexNumber \/ LexSymbol \/ LexSkip \/ LexEnd
  \/ ParseComment \/ ParseOpen \/ ParseAtom \/ ParseClose
  \/ ParseUnexpected \/ ParseMissingClose \/ ParseReturn
  \/ Interpret

SpecRun == InitRun /\ [][NextRun]_vars

\* ------------------------------------------- the printed form of a tree
\* The source form of a tree. The tree keeps a symbol and a string literal
\* as the same str, so a str is written bare when it reads back as one
\* symbol and between quotes otherwise; a number is written in decimal
\* digits, a list between parentheses, its elements one space apart.
IsSymbolText(s) == s # "" /\ Branch(Head(s)) = "SYMBOL" /\ SymbolEnd(s, 0) = Len(s)
RECURSIVE Unparse(_)
RECURSIVE UnparseAll(_)
UnparseAll(expressions) ==
  IF expressions = <<>> THEN ""
  ELSE Unparse(Head(expressions))
       \o (IF Tail(expressions) = <<>> THEN "" ELSE " " \o UnparseAll(Tail(expressions)))
Unparse(expression) ==
  CASE expression.t = "list" -> "(" \o UnparseAll(expression.v) \o ")"
    [] expression.t = "str" ->
         IF IsSymbolText(expression.v) THEN expression.v
         ELSE "\"" \o expression.v \o "\""
    [] expression.t = "float" -> FloatRepr(expression.v)
    [] OTHER -> ToString(expression.v)

Sources ==
  { "(define-motif m (archetypes (night \"deep sea\")) weight -1.50 () \"\")",
    "night \"a \\\" b\" (1 (2. (-.5))) \"-x\" \"7\" \"un" }

\* parse_motif(code), then parse_motif of the printed form of its tree
Reparse ==
  /\ phase = "interpret"
  /\ error = NoError
  /\ original = None
  /\ original' = ListV(ast)
  /\ text' = UnparseAll(ast)
  /\ position' = 0
  /\ line' = 1
  /\ column' = 1
  /\ tokens' = <<>>
  /\ ppos' = 0
  /\ stack' = <<>>
  /\ ast' = <<>>
  /\ phase' = "lex"
  /\ UNCHANGED <<error, store, out, trace, result, pc, expr, before>>

InitReparse ==
  /\ \E code \in Texts(MaxText) \cup Sources : InitLexer(code)
  /\ InitParser
  /\ InitInterpreter
  /\ phase = "lex"

NextReparse ==
  \/ LexParen \/ LexString \/ LexComment \/ LexNumber \/ LexSymbol \/ LexSkip \/ LexEnd
  \/ ParseComment \/ ParseOpen \/ ParseAtom \/ ParseClose
  \/ ParseUnexpected \/ ParseMissingClose \/ ParseReturn
  \/ Reparse

SpecReparse == InitReparse /\ [][NextReparse]_vars

\* ------------------------------------------------ _motif_to_lyrics(motif)
\* An interpreter in which the motif night has been defined, with
\* MaxComponents components at most, of these keys and values; the one step
\* is the call of _motif_to_lyrics on it, its value left in result.
MaxComponents == 2
ComponentKeys ==
  { StrV("archetypes"), StrV("Archetype"), StrV("metaphors"), StrV("emotional-target") }
ComponentValues ==
  { StrV("autumn"), ListV(<<StrV("autumn")>>), ListV(<<StrV("autumn"), StrV("autumn")>>),
    ListV(<<ListV(<<StrV("autumn")>>)>>), ListV(<<StrV("heart"), StrV("ocean")>>),
    ListV(<<StrV("autumn-love")>>),
    ListV(<<StrV("heart-ocean"), StrV("moonlight-promises")>>), ListV(<<>>) }
RECURSIVE ComponentDicts(_)
ComponentDicts(n) ==
  IF n = 0 THEN {<<>>}
  ELSE ComponentDicts(n - 1)
       \cup { Append(d, <<k, val>>) :
                d \in {c \in ComponentDicts(n - 1) : Len(c) = n - 1},
                k \in ComponentKeys, val \in ComponentValues }
DistinctKeys(d) == \A i, j \in 1..Len(d) : d[i][1] = d[j][1] => i = j

InitLyrics ==
  /\ InitLexer("")
  /\ InitParser
  /\ error = NoError
  /\ symbols = EmptyMap /\ archetypes = EmptyMap /\ emotions = EmptyMap
  /\ metaphors = EmptyMap /\ leitmotifs = EmptyMap /\ compositions = EmptyMap
  /\ context = EmptyMap
  /\ \E components \in {d \in ComponentDicts(MaxComponents) : DistinctKeys(d)} :
       motifs = MapSet(EmptyMap, night,
                       Entity("DefineMotif", [name |-> night, components |-> components]))
  /\ out = <<>> /\ trace = <<>> /\ result = None /\ pc = 0 /\ expr = None
  /\ before = [symbols |-> EmptyMap, archetypes |-> EmptyMap, emotions |-> EmptyMap,
               metaphors |-> EmptyMap, motifs |-> motifs, leitmotifs |-> EmptyMap,
               compositions |-> EmptyMap, context |-> EmptyMap, out |-> <<>>,
               result |-> None]
  /\ phase = "lyrics"

MotifToLyrics ==
  /\ phase = "lyrics"
  /\ pc = 0
  /\ result' = StrV(motif_to_lyrics(motifs[night]))
  /\ pc' = 1
  /\ UNCHANGED <<lexer, tokens, parser, ast, phase, error, store, out, trace, expr, before,
                 original>>

NextLyrics == MotifToLyrics

SpecLyrics == InitLyrics /\ [][NextLyrics]_vars

\* ------------------------------------------------------- (compose song)
\* An interpreter in which seven motifs are defined, each with its own
\* stanza, the leitmotif L lists MaxMotifs names at most (ghost is no
\* motif), and the composition song has the leitmotif L; the one step is
\* the evaluation of (compose song).
MaxMotifs == 3
SongMotifs ==
  << <<StrV("verse-a"), StrV("archetypes"), ListV(<<StrV("autumn")>>)>>,
     <<StrV("intro"), StrV("archetypes"), ListV(<<StrV("heart"), StrV("ocean")>>)>>,
     <<StrV("Chorus-b"), StrV("archetypes"), ListV(<<StrV("goodbye")>>)>>,
     <<StrV("bridge-a"), StrV("metaphors"), ListV(<<StrV("autumn-love")>>)>>,
     <<StrV("My-Bridge"), StrV("metaphors"), ListV(<<StrV("heart-ocean")>>)>>,
     <<StrV("Verse-Chorus"), StrV("metaphors"), ListV(<<StrV("moonlight-promises")>>)>>,
     <<StrV("Bridge-Chorus"), StrV("metaphors"), ListV(<<StrV("fading-photograph")>>)>> >>
MotifNames == {SongMotifs[i][1] : i \in 1..Len(SongMotifs)} \cup {StrV("ghost")}
RECURSIVE NameLists(_)
NameLists(n) ==
  IF n = 0 THEN {<<>>}
  ELSE {<<>>} \cup {<<m>> \o ms : m \in MotifNames, ms \in NameLists(n - 1)}

InitSong ==
  /\ InitLexer("")
  /\ InitParser
  /\ error = NoError
  /\ symbols = EmptyMap /\ archetypes = EmptyMap /\ emotions = EmptyMap
  /\ metaphors = EmptyMap /\ context = EmptyMap
  /\ motifs = [m \in MotifNames \ {StrV("ghost")} |->
                 LET i == CHOOSE k \in 1..Len(SongMotifs) : SongMotifs[k][1] = m
                 IN Entity("DefineMotif",
                           [name |-> m,
                            components |-> << <<SongMotifs[i][2], SongMotifs[i][3]>> >>])]
  /\ \E names \in NameLists(MaxMotifs) :
       leitmotifs = MapSet(EmptyMap, StrV("L"),
                          Entity("DefineLeitmotif",
                                 [name |-> StrV("L"), motifs |-> names,
                                  properties |-> <<>>]))
  /\ compositions = MapSet(EmptyMap, song,
                           Entity("DefineComposition",
                                  [name |-> song,
                                   structure |-> << <<StrV("leitmotif"), StrV("L")>> >>]))
  /\ out = <<>> /\ trace = <<>> /\ result = None /\ pc = 0 /\ expr = None
  /\ before = [symbols |-> EmptyMap, archetypes |-> EmptyMap, emotions |-> EmptyMap,
               metaphors |-> EmptyMap, motifs |-> motifs, leitmotifs |-> leitmotifs,
               compositions |-> compositions, context |-> EmptyMap, out |-> <<>>,
               result |-> None]
  /\ phase = "interpret"

ComposeSong ==
  /\ pc = 0
  /\ InterpretNext(Call("compose", <<song>>))

NextSong == ComposeSong

SpecSong == InitSong /\ [][NextSong]_vars

\* ============================================================ properties
\* The call interpret evaluated last, and the interpreter it ran on.
LastOperator ==
  IF IsList(expr) THEN IF expr.v # <<>> /\ IsStr(expr.v[1]) THEN expr.v[1].v ELSE "" ELSE ""
LastArgs == Tail(expr.v)
LastName == expr.v[2]
BeforeInterpreter ==
  [symbols |-> before.symbols, archetypes |-> before.archetypes,
   emotions |-> before.emotions, metaphors |-> before.metaphors,
   motifs |-> before.motifs, leitmotifs |-> before.leitmotifs,
   compositions |-> before.compositions, context |-> before.context,
   out |-> before.out, trace |-> <<>>]
StoreOf(s) ==
  <<s.symbols, s.archetypes, s.emotions, s.metaphors, s.motifs, s.leitmotifs,
    s.compositions, s.context>>

DefineOperators ==
  {"define-archetype", "define-image", "define-emotion", "define-metaphor", "define-motif",
   "define-leitmotif", "define-composition", "define-context", "define-seed-words"}
MinArgs(operator) == IF operator = "define-metaphor" THEN 3 ELSE 1
\* The mapping of s a define-* operator registers in, and the property
\* mapping of an entity registered there.
RegistryOf(s, operator) ==
  CASE operator = "define-archetype" -> s.archetypes
    [] operator = "define-image" -> s.symbols
    [] operator = "define-emotion" -> s.emotions
    [] operator = "define-metaphor" -> s.metaphors
    [] operator = "define-motif" -> s.motifs
    [] operator = "define-leitmotif" -> s.leitmotifs
    [] operator = "define-composition" -> s.compositions
    [] operator = "define-context" -> s.context
    [] operator = "define-seed-words" -> s.symbols
PropertiesOf(entity) ==
  CASE entity.t = "DefineArchetype" -> entity.v.properties
    [] entity.t = "DefineImage" -> entity.v.sensory_data
    [] entity.t = "DefineEmotion" -> entity.v.properties
    [] entity.t = "DefineMetaphor" -> entity.v.properties
    [] entity.t = "DefineMotif" -> entity.v.components
    [] entity.t = "DefineLeitmotif" -> entity.v.properties
    [] entity.t = "DefineComposition" -> entity.v.structure
    [] entity.t = "dict" -> DictGet(entity.v, StrV("properties")).v
HasProperties(entity) == entity.t # "list"

\* ------------------------------------------------------------------- C1
\* C1: a bare symbol evaluates to its entry in the first of symbols,
\* archetypes, emotions, metaphors, motifs, leitmotifs, compositions that
\* holds it, whatever the order of the definitions, and to itself when none
\* of them holds it.
ProbeOrder ==
  <<before.symbols, before.archetypes, before.emotions, before.metaphors, before.motifs,
    before.leitmotifs, before.compositions>>
C1_SymbolResolution ==
  (pc > 0 /\ IsStr(expr)) =>
    /\ error = NoError
    /\ \/ /\ \A i \in 1..7 : expr \notin DOMAIN ProbeOrder[i]
          /\ result = expr
       \/ \E i \in 1..7 :
            /\ expr \in DOMAIN ProbeOrder[i]
            /\ \A j \in 1..(i - 1) : expr \notin DOMAIN ProbeOrder[j]
            /\ result = ProbeOrder[i][expr]
\* night is an archetype and a motif, and evaluates to the archetype.
C1_Witness ==
  /\ pc > 0 /\ expr = night
  /\ night \notin DOMAIN symbols
  /\ night \in DOMAIN archetypes
  /\ night \in DOMAIN motifs
  /\ result = archetypes[night]
  /\ result # motifs[night]

\* ------------------------------------------------------------------- C2
\* C2: after (define-archetype name (k1 v1) ...) or (define-motif name
\* (k1 v1) ...), with every property a parenthesised pair, the entity
\* registered under name maps each ki to vi.
C2_PairedProperties ==
  ( /\ pc > 0 /\ error = NoError
    /\ LastOperator \in {"define-archetype", "define-motif"}
    /\ Len(LastArgs) >= 2
    /\ \A i \in 2..Len(LastArgs) : IsList(LastArgs[i]) /\ Len(LastArgs[i].v) = 2 ) =>
    \A i \in 2..Len(LastArgs) :
      /\ DictHas(PropertiesOf(RegistryOf(Snapshot, LastOperator)[LastName]), LastArgs[i].v[1])
      /\ DictGet(PropertiesOf(RegistryOf(Snapshot, LastOperator)[LastName]), LastArgs[i].v[1])
           = LastArgs[i].v[2]

C4_Redefinition ==
  ( /\ pc > 0 /\ error = NoError
    /\ LastOperator \in DefineOperators
    /\ LastName \in DOMAIN RegistryOf(before, LastOperator) ) =>
    RegistryOf(Snapshot, LastOperator)[LastName]
      = RegistryOf(evaluate(expr, NewInterpreter).st, LastOperator)[LastName]
\* night had an emotional-weight; redefined with an origin only, it has the
\* origin and no emotional-weight.
C4_Witness ==
  /\ pc > 1 /\ error = NoError
  /\ LastOperator = "define-archetype"
  /\ night \in DOMAIN before.archetypes
  /\ DictHas(before.archetypes[night].v.properties, StrV("emotional-weight"))
  /\ DictHas(archetypes[night].v.properties, StrV("origin"))
  /\ ~DictHas(archetypes[night].v.properties, StrV("emotional-weight"))

\* ------------------------------------------------------------------- C5
\* C5: compose of a name that is no key of compositions, and execute-motif
\* of a name that is no key of motifs, raise a RuntimeError whose message
\* holds the name, and nothing is printed or returned.
C5_UndefinedName ==
  ( /\ pc > 0
    /\ LastOperator \in {"compose", "execute-motif"}
    /\ LastArgs # <<>>
    /\ Hashable(LastName)
    /\ LastName \notin DOMAIN (IF LastOperator = "compose" THEN before.compositions
                               ELSE before.motifs) ) =>
    /\ error.kind = "RuntimeError"
    /\ PyContains(error.msg, "'" \o PyStr(LastName) \o "'")
    /\ out = before.out
    /\ result = before.result
    /\ StoreOf(Snapshot) = StoreOf(before)
\* night is a motif and no composition: compose has raised on it.
C5_Witness ==
  /\ pc > 1
  /\ expr = Call("compose", <<night>>)
  /\ night \in DOMAIN motifs
  /\ night \notin DOMAIN compositions
  /\ error.kind = "RuntimeError"
  /\ out = before.out

\* ------------------------------------------------------------------- C6
\* C6: on every token sequence, each step of the parser consumes a token,
\* raises a SyntaxError or returns, and a step is always possible until it
\* has raised or returned; tokens that leave a list open are never accepted:
\* the parser raises a SyntaxError on them.
\* The lists still open where the tokens end (at the EOF token, or after the
\* last token).
RECURSIVE OpenLists(_, _, _)
OpenLists(ts, i, depth) ==
  IF i > Len(ts) THEN depth
  ELSE IF ts[i].type = "EOF" THEN depth
  ELSE IF ts[i].type = "LPAREN" THEN OpenLists(ts, i + 1, depth + 1)
  ELSE IF ts[i].type = "RPAREN" /\ depth > 0 THEN OpenLists(ts, i + 1, depth - 1)
  ELSE OpenLists(ts, i + 1, depth)
Parsing == phase = "parse" /\ error = NoError
C6_UnclosedList ==
  /\ [](ppos <= Len(tokens))
  /\ [](Parsing => ENABLED NextParse)
  /\ [][Parsing => \/ ppos' = ppos + 1
                   \/ error'.kind = "SyntaxError"
                   \/ phase' = "interpret"]_vars
  /\ [](OpenLists(tokens, 1, 0) > 0 => phase = "parse")
  /\ []((OpenLists(tokens, 1, 0) > 0 /\ ~Parsing) => error.kind = "SyntaxError")
\* Two lists are open where the tokens end, and the parser has raised.
C6_Witness ==
  /\ Len(stack) = 2
  /\ ppos = Len(tokens)
  /\ OpenLists(tokens, 1, 0) = 2
  /\ error.kind = "SyntaxError"
  /\ PyContains(error.msg, "Expected ')'")

\* ------------------------------------------------------------------- C7
\* C7: when the evaluation of the k-th expression of a program raises,
\* interpret is left: no step follows, so no later expression is evaluated;
\* the interpreter the k-th expression started on is the one the expressions
\* before it produced, and none of its definitions or output is taken back.
Raised == phase = "interpret" /\ error # NoError
\* The interpreter after the first n expressions of es.
RECURSIVE RunPrefix(_, _)
RunPrefix(es, n) ==
  IF n = 0 THEN NewInterpreter ELSE evaluate(es[n], RunPrefix(es, n - 1)).st
IsPrefix(xs, ys) == Len(xs) <= Len(ys) /\ SubSeq(ys, 1, Len(xs)) = xs
StartedOn(st) == StoreOf(before) = StoreOf(st) /\ before.out = st.out
C7_ErrorAborts ==
  /\ [][~Raised]_vars
  /\ [](Raised =>
          /\ pc \in 1..Len(ast)
          /\ expr = ast[pc]
          /\ StartedOn(RunPrefix(ast, pc - 1))
          /\ \A i \in 1..8 : DOMAIN StoreOf(before)[i] \subseteq DOMAIN StoreOf(Snapshot)[i]
          /\ IsPrefix(before.out, out))
\* The second of three expressions has raised: the archetype of the first is
\* registered, the motif of the third is not.
C7_Witness ==
  /\ Raised
  /\ error.kind = "RuntimeError"
  /\ pc = 2 /\ Len(ast) = 3
  /\ ast[3] = Call("define-motif", <<night>>)
  /\ night \in DOMAIN archetypes
  /\ motifs = EmptyMap

\* ------------------------------------------------------------------- C8
\* C8: nothing is evaluated before parsing has completed. A text with a
\* syntax error, wherever it is, leaves the interpreter as it was made: no
\* expression evaluated, no entity registered, nothing printed; the tree is
\* handed over only once all tokens are read and all lists closed, and it
\* does not change afterwards.
C8_ParseBeforeEvaluate ==
  /\ [](error.kind = "SyntaxError" =>
          /\ phase = "parse"
          /\ pc = 0
          /\ StoreOf(Snapshot) = StoreOf(NewInterpreter)
          /\ out = <<>>
          /\ result = None)
  /\ [](phase = "interpret" => (is_at_end /\ stack = <<>>))
  /\ [](pc > 0 => phase = "interpret")
  /\ [][phase = "interpret" => ast' = ast]_vars
\* Two expressions were parsed before the syntax error; none was evaluated.
C8_Witness ==
  /\ error.kind = "SyntaxError"
  /\ Len(ast) = 2
  /\ ast[1] = Call("define-archetype", <<night>>)
  /\ pc = 0
  /\ archetypes = EmptyMap

\* ------------------------------------------------------------------- C9
\* C9: for a motif whose archetype tags, cleaned and without repeats, are
\* exactly autumn, _motif_to_lyrics returns the four autumn-leaves lines,
\* whatever its other components, metaphors included.
ArchetypeTags(motif) ==
  CleanTags(ExtractTags(motif.v.components, 1,
                        [archetypes |-> <<>>, metaphors |-> <<>>]).archetypes, <<>>)
MetaphorTags(motif) ==
  CleanTags(ExtractTags(motif.v.components, 1,
                        [archetypes |-> <<>>, metaphors |-> <<>>]).metaphors, <<>>)
AutumnStanza ==
  "Like autumn leaves, our love did fall\nBut memories remain, through it all\nGolden moments in my mind\nA love that time could never bind"
C9_AutumnStanza ==
  (phase = "lyrics" /\ pc = 1 /\ ArchetypeTags(motifs[night]) = <<"autumn">>) =>
    result = StrV(AutumnStanza)
\* The motif also has a metaphor tag with a rule of its own.
C9_Witness ==
  /\ phase = "lyrics" /\ pc = 1
  /\ ArchetypeTags(motifs[night]) = <<"autumn">>
  /\ InSeq("autumn-love", MetaphorTags(motifs[night]))
  /\ result = StrV(AutumnStanza)

\* ------------------------------------------------------------------ C10
\* C10: a while-emotional-state whose condition is falsy the first time it
\* is evaluated evaluates the condition once and nothing of the body, and
\* returns None: the evaluations made are the call's and the condition's.
WhileStopsAt(c) ==
  (~Failed(c) /\ ~Truthy(c.val)) =>
    /\ error = NoError
    /\ result = None
    /\ trace = <<expr>> \o c.st.trace
    /\ out = c.st.out
    /\ StoreOf(Snapshot) = StoreOf(c.st)
C10_WhileFalsy ==
  (pc > 0 /\ LastOperator = "while-emotional-state" /\ Len(LastArgs) >= 2) =>
    WhileStopsAt(evaluate(LastArgs[1], BeforeInterpreter))
\* The listener is not in despair: the loop has evaluated (listener-state
\* despair) and not its body.
C10_Witness ==
  /\ pc > 1
  /\ expr = Call("while-emotional-state", <<Despair, Calm>>)
  /\ result = None /\ before.result # None
  /\ trace = <<expr, Despair>>
  /\ out = before.out

\* ------------------------------------------------------------------ C11
\* C11: round-trip stability. When a text has parsed without error and the
\* printed form of its tree has been lexed and parsed in turn, the second
\* parse has raised no error and its tree is equal to the first one.
C11_RoundTrip ==
  /\ original # None => error = NoError
  /\ (original # None /\ phase = "interpret") => ListV(ast) = original
C11_Witness ==
  /\ original # None /\ phase = "interpret"
  /\ \E i \in 1..Len(ast) : IsStr(ast[i]) /\ ~IsSymbolText(ast[i].v)
  /\ \E i \in 1..Len(ast) : IsList(ast[i]) /\ ast[i].v # <<>>
  /\ \E i \in 1..Len(ast) : ast[i] = StrV("7")

\* ------------------------------------------------------------------ C12
\* C12: tokenize terminates without an error on every text, and the tokens
\* it returns hold exactly one EOF token, the last one. While the lexer
\* runs no error is raised, no EOF token is among the tokens and the cursor
\* is inside the text; every step of the lexer moves the cursor forward or
\* returns, and a step is possible until it returns; what it returns ends
\* with the only EOF token.
\* The guard of LexEnd, or the guard of one of the other six steps.
TokenizeCanStep ==
  \/ Cursor.position >= Len(text)
  \/ CurrentBranch \in {"LPAREN", "RPAREN", "STRING", "COMMENT", "NUMBER", "SYMBOL", "skip"}
EOFCount == Cardinality({i \in 1..Len(tokens) : tokens[i].type = "EOF"})
C12_TokenizeTotal ==
  /\ [](phase = "lex" => /\ error = NoError
                          /\ EOFCount = 0
                          /\ position <= Len(text)
                          /\ TokenizeCanStep)
  /\ [][phase = "lex" => position' > position \/ phase' = "parse"]_vars
  /\ [](phase # "lex" => /\ EOFCount = 1
                          /\ tokens[Len(tokens)].type = "EOF")
C12_Witness ==
  /\ phase = "parse"
  /\ text = "#\"a"
  /\ Len(tokens) = 2
  /\ tokens[1].type = "STRING" /\ tokens[1].value = "\"a"

\* ------------------------------------------------------------------ C13
\* C13: a '-' that no digit follows starts a symbol. Every token whose text
\* starts with such a '-' is a SYMBOL token, and no number token made of
\* it is rejected by the parser.
DashNoDigit(value) ==
  /\ value # ""
  /\ Head(value) = "-"
  /\ (Len(value) = 1 \/ ~IsDigit(Char(value, 2)))
C13_DashStartsSymbol ==
  /\ \A i \in 1..Len(tokens) : DashNoDigit(tokens[i].value) => tokens[i].type = "SYMBOL"
  /\ \A i \in 1..Len(tokens) :
       DashNoDigit(tokens[i].value) => error # SyntaxError("Invalid number: " \o tokens[i].value)

\* ------------------------------------------------------------------ C14
\* C14: a string literal or a number literal evaluates to itself in every
\* state of the store. When the last token of a program is a STRING or a
\* NUMBER token (so the last expression is that literal) and the program
\* has been evaluated without error, the result is the literal's value.
LastToken == tokens[Len(tokens) - 1]
C14_LiteralItself ==
  ( /\ phase = "interpret" /\ error = NoError /\ pc = Len(ast)
    /\ Len(tokens) >= 2
    /\ LastToken.type \in {"STRING", "NUMBER"} )
  => result = IF LastToken.type = "STRING"
              THEN StrV(SubSeq(LastToken.value, 2, Len(LastToken.value) - 1))
              ELSE parse_number(LastToken.value).val

\* ------------------------------------------------------------------ C15
\* C15: in define-composition a key that is a list (k v) sets structure[k]
\* to v and does not consume the argument after it, which is the next key.
\* After a define-composition call that returned, every list (k v) standing
\* in a key slot of the call (the slots being counted as the claim says: one
\* argument for a list key, two for a plain key and its value) is in the
\* structure registered under the name.
RECURSIVE ListKeySlots(_, _)
ListKeySlots(args, j) ==
  IF j > Len(args) THEN {}
  ELSE IF IsList(args[j]) THEN {j} \cup ListKeySlots(args, j + 1)
  ELSE ListKeySlots(args, j + 2)
C15_ListKeyOwnSlot ==
  (pc > 0 /\ LastOperator = "define-composition" /\ error = NoError)
  => \A j \in ListKeySlots(LastArgs, 2) :
       Len(LastArgs[j].v) = 2 /\ IsStr(LastArgs[j].v[1])
       => /\ LastName \in DOMAIN compositions
          /\ DictHas(compositions[LastName].v.structure, LastArgs[j].v[1])
          /\ DictGet(compositions[LastName].v.structure, LastArgs[j].v[1]) = LastArgs[j].v[2]

\* ------------------------------------------------------------------ C16
\* C16: compose synthesizes one stanza for every defined motif of the list
\* (motifs (m1 ... mk)) its leitmotif was declared with, in the order of the
\* list, and skips the undefined ones. When a program has run to its end
\* without error and its last call composed a composition whose leitmotif
\* was declared with such a list, the song text is the one made of the
\* stanzas of m1 ... mk.
IsMotifList(a) ==
  IsList(a) /\ Len(a.v) = 2 /\ a.v[1] = StrV("motifs") /\ IsList(a.v[2])
DeclaresMotifs(expression, leitmotif_name) ==
  /\ IsList(expression) /\ Len(expression.v) >= 3
  /\ expression.v[1] = StrV("define-leitmotif")
  /\ expression.v[2] = leitmotif_name
  /\ IsMotifList(expression.v[3])
StanzasOf(motif_names) ==
  SongText(BucketMotifs(motif_names, 1,
                        [bad |-> FALSE, verses |-> <<>>, choruses |-> <<>>,
                         bridges |-> <<>>], Interpreter)).text
C16_StanzaPerMotif ==
  ( /\ phase = "interpret" /\ error = NoError /\ pc = Len(ast) /\ pc > 0
    /\ LastOperator = "compose"
    /\ LastName \in DOMAIN compositions )
  => \A i \in 1..Len(ast) :
       DeclaresMotifs(ast[i], LeitmotifName(compositions[LastName]))
       => DictGet(result.v, StrV("song_text")) = StrV(StanzasOf(ast[i].v[3].v[2].v))

\* ------------------------------------------------------------------ C17
\* C17: in define-leitmotif a key that is a list starting with motifs gives
\* the motif list: after a define-leitmotif call that returned, the motifs
\* registered under the name are the elements after motifs of the last such
\* list among the key slots (the 2nd, 4th, ... argument), also when that
\* list is the last argument of the call.
MotifsKeySlots(args) ==
  { j \in 2..Len(args) :
      j % 2 = 0 /\ IsList(args[j]) /\ Len(args[j].v) > 0 /\ args[j].v[1] = StrV("motifs") }
C17_MotifsListKey ==
  ( /\ pc > 0 /\ LastOperator = "define-leitmotif" /\ error = NoError
    /\ MotifsKeySlots(LastArgs) # {} )
  => LET j == CHOOSE k \in MotifsKeySlots(LastArgs) :
                \A l \in MotifsKeySlots(LastArgs) : l <= k
     IN /\ LastName \in DOMAIN leitmotifs
        /\ leitmotifs[LastName].v.motifs = Tail(LastArgs[j].v)

\* ------------------------------------------------------------------ C18
\* C18 as stated: generate-emotion (apply-metaphor) of a name that is no
\* key of emotions (metaphors) raises a RuntimeError.
C18_AsStated ==
  ( /\ pc > 0
    /\ LastOperator \in {"generate-emotion", "apply-metaphor"}
    /\ LastArgs # <<>>
    /\ LastName \notin DOMAIN (IF LastOperator = "generate-emotion" THEN before.emotions
                               ELSE before.metaphors) )
  => error.kind = "RuntimeError"
\* C18 as amended: generate-emotion with two arguments or more, and
\* apply-metaphor with three or more, never raise and never read or change
\* the mappings: whether or not the name is defined, the call prints one
\* line and returns a status record that names its first argument.
C18_NoLookup ==
  /\ (pc > 0 /\ LastOperator = "generate-emotion" /\ Len(LastArgs) >= 2)
     => /\ error = NoError
        /\ StoreOf(Snapshot) = StoreOf(before)
        /\ Len(out) = Len(before.out) + 1
        /\ result = DictV(<< <<StrV("status"), StrV("generated")>>,
                             <<StrV("emotion"), LastName>>,
                             <<StrV("intensity"), LastArgs[2]>> >>)
  /\ (pc > 0 /\ LastOperator = "apply-metaphor" /\ Len(LastArgs) >= 3)
     => /\ error = NoError
        /\ StoreOf(Snapshot) = StoreOf(before)
        /\ Len(out) = Len(before.out) + 1
        /\ result = DictV(<< <<StrV("status"), StrV("applied")>>,
                             <<StrV("metaphor"), LastName>> >>)
\* generate-emotion has returned for night, which is an archetype and no
\* emotion.
C18_Witness ==
  /\ pc > 1
  /\ LastOperator = "generate-emotion"
  /\ Len(LastArgs) = 2
  /\ LastName = night
  /\ night \in DOMAIN archetypes
  /\ night \notin DOMAIN emotions
  /\ error = NoError

IsCall(expression) ==
  IsList(expression) /\ expression.v # <<>> /\ IsStr(expression.v[1])
WhileRuns(c) ==
  (~Failed(c) /\ Truthy(c.val)) =>
    IF IsCall(LastArgs[2])
    THEN \E i \in 1..Len(trace) : trace[i] = LastArgs[2]
    ELSE (IsList(LastArgs[2]) /\ LastArgs[2].v # <<>>)
         => \E i \in 1..Len(trace) : trace[i] = LastArgs[2].v[1]
C20_WhileBodyCall ==
  (pc > 0 /\ LastOperator = "while-emotional-state" /\ Len(LastArgs) >= 2) =>
    WhileRuns(evaluate(LastArgs[1], BeforeInterpreter))

\* ------------------------------------------------------------------ C21
\* C21: the loop has no iteration cap. A while-emotional-state on
\* (listener-state melancholy) or (listener-state nostalgia) never returns:
\* once interpret has entered it, either its body has raised or the loop is
\* still running after MaxIter iterations, the condition having been
\* evaluated MaxIter + 1 times; and interpret takes no step out of a running
\* loop, so the next expression is never reached.
FixedTrue ==
  { Call("listener-state", <<StrV("melancholy")>>),
    Call("listener-state", <<StrV("nostalgia")>>) }
C21_NoIterationCap ==
  /\ []( ( /\ pc > 0 /\ LastOperator = "while-emotional-state"
           /\ Len(LastArgs) >= 2 /\ LastArgs[1] \in FixedTrue )
         => /\ error # NoError
            /\ error.kind = "Looping"
                 => Cardinality({i \in 1..Len(trace) : trace[i] = LastArgs[1]}) = MaxIter + 1 )
  /\ [][error.kind # "Looping"]_vars
\* The loop on nostalgia is running: its body has defined night and printed
\* MaxIter times, and (define-emotion e) after it has not been evaluated.
C21_Witness ==
  /\ pc = 1 /\ Len(ast) = 2
  /\ LastOperator = "while-emotional-state"
  /\ LastArgs[1] = Call("listener-state", <<StrV("nostalgia")>>)
  /\ error.kind = "Looping"
  /\ night \in DOMAIN archetypes
  /\ Len(out) = MaxIter
  /\ emotions = EmptyMap

\* ------------------------------------------------------------------ C22
\* C22: if-emotional-state evaluates its condition once and then exactly
\* one branch, the second argument when the condition is truthy and the
\* third otherwise, and returns what the branch returns. After the call the
\* evaluations made are the call's, the condition's and the taken
\* branch's; the mappings, the output, the result and the error are those
\* the taken branch leaves when evaluated after the condition.
IfTook(r) ==
  /\ trace = <<expr>> \o r.st.trace
  /\ error = r.err
  /\ ~Failed(r) => result = r.val
  /\ out = r.st.out
  /\ StoreOf(Snapshot) = StoreOf(r.st)
IfChose(c) ==
  ~Failed(c) => IfTook(evaluate(IF Truthy(c.val) THEN LastArgs[2] ELSE LastArgs[3], c.st))
C22_IfOneBranch ==
  (pc > 0 /\ LastOperator = "if-emotional-state" /\ Len(LastArgs) >= 3) =>
    IfChose(evaluate(LastArgs[1], BeforeInterpreter))
\* The listener is in melancholy: the archetype of the first branch is
\* defined and the unknown operator of the second has not been raised.
C22_Witness ==
  /\ pc > 0
  /\ LastOperator = "if-emotional-state"
  /\ LastArgs[1] = Melancholy
  /\ LastArgs[3] = Call("no-such-operator", <<>>)
  /\ error = NoError
  /\ night \in DOMAIN archetypes /\ night \notin DOMAIN before.archetypes
  /\ result = archetypes[night]

\* ------------------------------------------------------------------ C23
\* C23: a list that is not empty and whose first element is not one of the
\* twenty operator names raises RuntimeError "Unknown operator", whatever
\* the mappings hold and whether the first element is a symbol (defined or
\* not), a number or a list; nothing is registered, printed or returned.
\* The empty list evaluates to None without error.
Operators ==
  DefineOperators \cup
  {"compose", "execute-motif", "generate-emotion", "apply-metaphor", "if-emotional-state",
   "while-emotional-state", "listener-state", "predict-emotional-triggers",
   "optimize-for-impact", "analyze-context", "generate-seed-words"}
C23_UnknownOperator ==
  (pc > 0 /\ IsList(expr)) =>
    IF expr.v = <<>> THEN error = NoError /\ result = None
    ELSE (LastOperator \notin Operators) =>
           /\ error.kind = "RuntimeError"
           /\ PyContains(error.msg, "Unknown operator: " \o PyStr(expr.v[1]))
           /\ StoreOf(Snapshot) = StoreOf(before)
           /\ out = before.out
           /\ result = before.result
\* night is an archetype, and the list (night night) has raised.
C23_Witness ==
  /\ pc > 1
  /\ expr = ListV(<<night, night>>)
  /\ night \in DOMAIN archetypes
  /\ error = [kind |-> "RuntimeError", msg |-> "Unknown operator: night"]


\* ------------------------------------------------------------------ C24
\* The names of leitmotif L, and the stanzas of its defined motifs that
\* fall in one bucket.
SongNames == leitmotifs[StrV("L")].v.motifs
RECURSIVE StanzasIn(_, _, _)
StanzasIn(names, i, bucket) ==
  IF i > Len(names) THEN <<>>
  ELSE (IF names[i] \in DOMAIN motifs /\ SectionOf(names[i].v) = bucket
        THEN <<motif_to_lyrics(motifs[names[i]])>> ELSE <<>>)
       \o StanzasIn(names, i + 1, bucket)

\* A section is its header line, its stanza and an empty line; the song
\* that has the verse, chorus and bridge stanzas v, c and b is its
\* sections one line break apart.
Section(header, stanza) == header \o "\n" \o stanza \o "\n"
RECURSIVE VerseSections(_, _, _)
VerseSections(v, c, i) ==
  IF i > Len(v) THEN <<>>
  ELSE <<Section("[Verse " \o ToString(i) \o "]", v[i])>>
       \o (IF Len(c) >= 1 THEN <<Section("[Chorus]", c[1])>> ELSE <<>>)
       \o VerseSections(v, c, i + 1)
SongSections(v, c, b) ==
  VerseSections(v, c, 1)
  \o (IF Len(b) >= 1 THEN <<Section("[Bridge]", b[1])>> ELSE <<>>)
  \o (IF Len(c) >= 1 THEN <<Section("[Chorus]", c[1])>> ELSE <<>>)
RECURSIVE Sections(_)
Sections(secs) ==
  IF secs = <<>> THEN ""
  ELSE IF Len(secs) = 1 THEN secs[1]
  ELSE secs[1] \o "\n" \o Sections(Tail(secs))

\* The places of song_text where sub starts.
Places(song_text, sub) ==
  {i \in 1..(Len(song_text) - Len(sub) + 1) :
     SubSeq(song_text, i, i + Len(sub) - 1) = sub}

\* The song text (compose song) returned.
SongWritten ==
  /\ pc > 0 /\ error = NoError /\ LastOperator = "compose"
  /\ result.t = "dict" /\ DictHas(result.v, StrV("song_text"))
SongOut == DictGet(result.v, StrV("song_text")).v

SongInOrder(song_text, v, c, b) ==
  LET chorus == Places(song_text, "[Chorus]")
      bridge == Places(song_text, "[Bridge]")
  IN /\ song_text = Sections(SongSections(v, c, b))
     /\ Cardinality(chorus) = (IF Len(c) >= 1 THEN Len(v) + 1 ELSE 0)
     /\ Cardinality(bridge) = (IF Len(b) >= 1 THEN 1 ELSE 0)
     /\ chorus # {} => chorus = Places(song_text, Section("[Chorus]", c[1]))
     /\ bridge # {} => bridge = Places(song_text, Section("[Bridge]", b[1]))
     /\ \A k \in 2..Len(c) : c[k] # c[1] => Places(song_text, c[k]) = {}
     /\ \A k \in 2..Len(b) : b[k] # b[1] => Places(song_text, b[k]) = {}

\* C24: the song text is, in order, for each verse stanza a section headed
\* Verse i, each followed by a Chorus section when there is a chorus
\* stanza, then one Bridge section when there is a bridge stanza, then one
\* final Chorus section when there is a chorus stanza; so there are v+1
\* Chorus sections or none, at most one Bridge section, each holding the
\* first stanza of its bucket (a later, different stanza of the bucket is
\* nowhere in the text), and an empty bucket gives no section and no error.
C24_SongAssemblyOrder ==
  /\ pc > 0 => error = NoError /\ SongWritten
  /\ SongWritten =>
       SongInOrder(SongOut, StanzasIn(SongNames, 1, "verses"),
                   StanzasIn(SongNames, 1, "choruses"),
                   StanzasIn(SongNames, 1, "bridges"))

\* A song of one verse and two different chorus stanzas was composed.
C24_Witness ==
  /\ SongWritten
  /\ SongNames = <<StrV("verse-a"), StrV("Chorus-b"), StrV("Bridge-Chorus")>>
  /\ Cardinality(Places(SongOut, "[Chorus]")) = 2


\* ------------------------------------------------------------------ C25
\* The template of the first rule of the table that matches the tags, in
\* the order of the table; <<>> when no rule matches.
FirstTemplate(a, m) ==
  IF InSeq("heart", a) /\ InSeq("ocean", a) THEN HeartOceanLines
  ELSE IF InSeq("photograph", a) /\ InSeq("moonlight", a) THEN PhotographMoonlightLines
  ELSE IF InSeq("autumn", a) THEN AutumnLines
  ELSE IF InSeq("goodbye", a) THEN GoodbyeLines
  ELSE IF InSeq("heart-ocean", m) THEN HeartOceanMetaphorLines
  ELSE IF InSeq("fading-photograph", m) THEN FadingPhotographLines
  ELSE IF InSeq("autumn-love", m) THEN AutumnLoveLines
  ELSE IF InSeq("moonlight-promises", m) THEN MoonlightPromisesLines
  ELSE <<>>

FourLines(t) ==
  t[1] \o "\n" \o t[2] \o "\n" \o t[3] \o "\n" \o t[4]

StanzaOfFirstRule(stanza, a, m) ==
  /\ Cardinality(Places(stanza, "\n")) <= 3
  /\ FirstTemplate(a, m) # <<>> =>
       /\ Len(FirstTemplate(a, m)) = 4
       /\ stanza = FourLines(FirstTemplate(a, m))

\* C25: the stanza of every motif has at most four lines, and whenever a
\* rule of the table matches, the stanza is exactly the four-line template
\* of the first matching rule in the order heart+ocean, photograph+moonlight,
\* autumn, goodbye, then the metaphors heart-ocean, fading-photograph,
\* autumn-love, moonlight-promises.
C25_FirstRuleFourLines ==
  (phase = "lyrics" /\ pc = 1) =>
    /\ result.t = "str"
    /\ StanzaOfFirstRule(result.v, ArchetypeTags(motifs[night]), MetaphorTags(motifs[night]))

\* The tags match two archetype rules, the later one named first.
C25_Witness ==
  /\ phase = "lyrics" /\ pc = 1
  /\ ArchetypeTags(motifs[night]) = <<"autumn", "heart", "ocean">>
  /\ result = StrV(FourLines(HeartOceanLines))


\* ------------------------------------------------------------------ C26
\* The word occurs in the name, whatever the case of the name's letters.
NameHas(name, word) ==
  \E i \in 1..(Len(name) - Len(word) + 1) :
    PyLower(SubSeq(name, i, i + Len(word) - 1)) = word
IsVerse(name) ==
  NameHas(name, "verse") \/ (~NameHas(name, "chorus") /\ ~NameHas(name, "bridge"))
IsChorus(name) == ~NameHas(name, "verse") /\ NameHas(name, "chorus")
IsBridge(name) ==
  ~NameHas(name, "verse") /\ ~NameHas(name, "chorus") /\ NameHas(name, "bridge")

InClass(name, class) ==
  IF class = "verse" THEN IsVerse(name)
  ELSE IF class = "chorus" THEN IsChorus(name)
  ELSE IsBridge(name)

\* The stanzas of the defined names of the list that are in the class.
RECURSIVE StanzasWhere(_, _, _)
StanzasWhere(names, i, class) ==
  IF i > Len(names) THEN <<>>
  ELSE (IF names[i] \in DOMAIN motifs /\ InClass(names[i].v, class)
        THEN <<motif_to_lyrics(motifs[names[i]])>> ELSE <<>>)
       \o StanzasWhere(names, i + 1, class)

DefinedNames(names) == {i \in 1..Len(names) : names[i] \in DOMAIN motifs}

Bucketed(names, song_text) ==
  LET v == StanzasWhere(names, 1, "verse")
      c == StanzasWhere(names, 1, "chorus")
      b == StanzasWhere(names, 1, "bridge")
      buckets == BucketMotifs(names, 1, [bad |-> FALSE, verses |-> <<>>,
                                         choruses |-> <<>>, bridges |-> <<>>],
                              Interpreter)
  IN /\ ~buckets.bad
     /\ buckets.verses = v /\ buckets.choruses = c /\ buckets.bridges = b
     /\ Len(v) + Len(c) + Len(b) = Cardinality(DefinedNames(names))
     /\ song_text = Sections(SongSections(v, c, b))

\* C26: every defined motif of the leitmotif's list is in exactly one of
\* the buckets verse, chorus, bridge: a name that contains "verse" in any
\* case, or none of the three words, is a verse; otherwise one that
\* contains "chorus" is a chorus; otherwise it is a bridge. The song text
\* is the one of these buckets.
C26_OneBucket == SongWritten => Bucketed(SongNames, SongOut)

\* The list names a verse that is also a chorus, a chorus that is also a
\* bridge, and a name with none of the three words.
C26_Witness ==
  /\ SongWritten
  /\ SongNames = <<StrV("Verse-Chorus"), StrV("Bridge-Chorus"), StrV("intro")>>
  /\ Cardinality(Places(SongOut, "[Verse ")) = 2
  /\ Cardinality(Places(SongOut, "[Bridge]")) = 0


\* ------------------------------------------------------------------ C27
\* The text of a string token has a closing quote: scanning from i, a
\* backslash skips the character after it and the first quote met closes.
RECURSIVE Closed(_, _)
Closed(value, i) ==
  IF i > Len(value) THEN FALSE
  ELSE IF SubSeq(value, i, i) = "\\" THEN Closed(value, i + 2)
  ELSE IF SubSeq(value, i, i) = "\"" THEN TRUE
  ELSE Closed(value, i + 1)

\* The token's text without its surrounding quote characters.
StringContent(value) ==
  IF Closed(value, 2) THEN SubSeq(value, 2, Len(value) - 1)
  ELSE SubSeq(value, 2, Len(value))

\* C27: the value of a parsed string literal is its token's text with only
\* the surrounding quote characters removed, also when the string has no
\* closing quote and runs to the end of the input. When a text has been
\* parsed and its last token before EOF is a string, the last expression
\* of the tree is that content.
C27_StringContent ==
  (phase = "interpret" /\ Len(tokens) >= 2 /\ LastToken.type = "STRING") =>
    /\ Len(ast) >= 1
    /\ ast[Len(ast)] = StrV(StringContent(LastToken.value))


\* ------------------------------------------------------------------ C28
Mappings ==
  {"symbols", "archetypes", "emotions", "metaphors", "motifs", "leitmotifs",
   "compositions", "context"}
\* The mapping a define-* operator writes.
RegistryName(operator) ==
  CASE operator = "define-archetype" -> "archetypes"
    [] operator = "define-image" -> "symbols"
    [] operator = "define-emotion" -> "emotions"
    [] operator = "define-metaphor" -> "metaphors"
    [] operator = "define-motif" -> "motifs"
    [] operator = "define-leitmotif" -> "leitmotifs"
    [] operator = "define-composition" -> "compositions"
    [] operator = "define-context" -> "context"
    [] operator = "define-seed-words" -> "symbols"
\* The evaluations of the last top-level evaluation that are define-* calls
\* writing name n of mapping f.
DefinesOf(f, n) ==
  {i \in 1..Len(trace) :
     /\ IsList(trace[i]) /\ Len(trace[i].v) >= 2
     /\ IsStr(trace[i].v[1]) /\ trace[i].v[1].v \in DefineOperators
     /\ RegistryName(trace[i].v[1].v) = f
     /\ trace[i].v[2] = n}

\* C28: over any sequence of evaluations no name disappears from any
\* mapping, and only define-* evaluations change a mapping: an entry that
\* is new or changed after a top-level evaluation is the name of a define-*
\* call for its mapping made during that evaluation; compose,
\* execute-motif, generate-emotion, apply-metaphor, listener-state, the
\* control-flow operators themselves and the stub analytics operators
\* leave every mapping as it was.
C28_OnlyDefinesWrite ==
  pc > 0 =>
    \A f \in Mappings :
      /\ DOMAIN before[f] \subseteq DOMAIN Snapshot[f]
      /\ \A n \in DOMAIN Snapshot[f] :
           (n \notin DOMAIN before[f] \/ before[f][n] # Snapshot[f][n])
             => DefinesOf(f, n) # {}

\* A defined motif was executed: it is still defined, and so is all else.
C28_Witness ==
  /\ pc > 1 /\ error = NoError
  /\ LastOperator = "execute-motif"
  /\ LastName \in DOMAIN motifs
  /\ StoreOf(Snapshot) = StoreOf(before)


\* ------------------------------------------------------------------ C29
\* The last top-level call raised (a loop still running has not).
CallFailed == pc > 0 /\ error.kind \notin {"none", "Looping"}
ControlFlow == {"if-emotional-state", "while-emotional-state"}

\* C29 as stated: an operator call that fails leaves every mapping exactly
\* as it was before the call.
C29_AsStated == CallFailed => StoreOf(Snapshot) = StoreOf(before)

\* C29: a call that fails leaves every mapping exactly as it was before
\* the call (a define-* call rejected for arity registers nothing, a failed
\* compose or execute-motif changes nothing), except that a failed
\* if-emotional-state or while-emotional-state keeps what the define-*
\* calls of its branch or body registered before the failing call was
\* evaluated.
C29_FailedCallWritesNothing ==
  CallFailed =>
    IF LastOperator \notin ControlFlow THEN StoreOf(Snapshot) = StoreOf(before)
    ELSE \A f \in Mappings :
           /\ DOMAIN before[f] \subseteq DOMAIN Snapshot[f]
           /\ \A n \in DOMAIN Snapshot[f] :
                (n \notin DOMAIN before[f] \/ before[f][n] # Snapshot[f][n])
                  => \E i \in DefinesOf(f, n) : i < Len(trace)

\* A define-metaphor with too few arguments was rejected in an interpreter
\* that has definitions, and its name is no metaphor.
C29_Witness ==
  /\ CallFailed
  /\ LastOperator = "define-metaphor" /\ Len(LastArgs) \in {1, 2}
  /\ LastName \notin DOMAIN metaphors
  /\ StoreOf(before) # StoreOf(NewInterpreter)


\* ------------------------------------------------------------------ C30
\* The last call was a define of the operator that returned.
Defined(operator) ==
  pc > 0 /\ error = NoError /\ LastOperator = operator /\ Len(LastArgs) >= 1
IsImage(val, n) == val.t = "DefineImage" /\ val.v.name = n
InNoProbed(n, s) ==
  /\ n \notin DOMAIN s.symbols /\ n \notin DOMAIN s.archetypes
  /\ n \notin DOMAIN s.emotions /\ n \notin DOMAIN s.metaphors
  /\ n \notin DOMAIN s.motifs /\ n \notin DOMAIN s.leitmotifs
  /\ n \notin DOMAIN s.compositions

\* C30: define-image and define-seed-words register under their name in
\* symbols, each replacing what the other registered there; symbols holds
\* nothing else, and a bare symbol that is a key of symbols evaluates to
\* its entry there, whatever else the name is defined as. define-context
\* writes context only, and a name that is a key of context and of no
\* probed mapping evaluates to itself.
C30_SymbolsFirst ==
  /\ \A n \in DOMAIN symbols : IsImage(symbols[n], n) \/ symbols[n] = SeedWords
  /\ Defined("define-image") =>
       LastName \in DOMAIN symbols /\ IsImage(symbols[LastName], LastName)
  /\ Defined("define-seed-words") =>
       LastName \in DOMAIN symbols /\ symbols[LastName] = SeedWords
  /\ (pc > 0 /\ IsStr(expr) /\ expr \in DOMAIN before.symbols) =>
       error = NoError /\ result = before.symbols[expr]
  /\ Defined("define-context") =>
       /\ LastName \in DOMAIN context
       /\ [Snapshot EXCEPT !.context = before.context, !.out = before.out,
                           !.result = before.result] = before
  /\ (pc > 0 /\ IsStr(expr) /\ expr \in DOMAIN before.context /\ InNoProbed(expr, before)) =>
       error = NoError /\ result = expr

\* night, an archetype and an image, was defined as seed words: symbols
\* holds the seed words in place of the image.
C30_Witness ==
  /\ Defined("define-seed-words") /\ LastName = night
  /\ night \in DOMAIN before.symbols /\ IsImage(before.symbols[night], night)
  /\ night \in DOMAIN archetypes
  /\ symbols[night] = SeedWords

====
